---- MODULE Spec2Model ----
(***************************************************************************)
(* The Form 5500 ingestion pipeline and the sponsor analyzers of           *)
(* CVUS_Tool.                                                              *)
(*                                                                         *)
(* Strings the code compares or pads character by character (EIN,          *)
(* PLAN_NUMBER, TRACKING_ID) are sequences of one-character strings.       *)
(* A missing value (None / NaN / pd.NA) is the empty tuple NA, a present   *)
(* value v is the one-element tuple <<v>>.                                 *)
(*                                                                         *)
(* The module holds several specifications over the same variables, one    *)
(* per component; a component that a specification does not run stays in   *)
(* its idle state.                                                         *)
(*   Spec       combine_years for each year, then build_master_dataset     *)
(*   SpecIdent  identifier normalisation applied to raw strings            *)
(*   SpecMerge  merge_sb_5500 applied to a Form 5500 and a Schedule SB     *)
(*              frame                                                      *)
(*   SpecSlope  _slope and five_year_rate applied to a yearly series       *)
(*   SpecRules  the de-risking rules applied to a sponsor's yearly rows    *)
(*   SpecAgents the three analyzers asked about one sponsor                *)
(*   SpecIngest one run of an ingestion engine: combine_years,             *)
(*              load_multi_year_data or the module loop, with files that   *)
(*              may be missing, empty or without a key column              *)
(*   SpecNorm   normalize_sb_fields applied to a raw Schedule SB table     *)
(*   SpecRatio  the annuitant ratio of the master table and of the rollup  *)
(*   SpecStages one call of a table stage: normalize_sb_fields,            *)
(*              normalize_sr_fields, merge_sb_sr, merge_schedule_h,        *)
(*              add_prt_analysis_fields, build_sponsor_rollup,             *)
(*              analyze_prt_history                                        *)
(***************************************************************************)
EXTENDS Integers, Sequences, FiniteSets, TLC

VARIABLES
    \* ---- multi-year ingestion (combine_years) and build_master_dataset
    pc,         \* "ingest" | "built" | "failed"
    year,       \* the year the loop of combine_years is about to process
    results,    \* combine_years' list of (year, merged table)
    rowsLeft,   \* input rows the run may still read (bounds the input size)
    master,     \* build_master_dataset's table, <<>> before it is built
    \* ---- identifier normalisation applied to two raw strings
    idKind,     \* "EIN" | "SB_EIN" | "PLAN_NUMBER": the field of the raw strings
    idRaw,      \* <<a, b>>: two raw identifier strings
    idNorm,     \* <<>> before normalisation, then <<norm(a), norm(b)>>
    idAgain,    \* <<>>, then the normalisation of the two strings of idNorm
    \* ---- merge_sb_5500(df_5500, df_sb, df_sr)
    df_5500,    \* the Form 5500 frame: [columns, rows]
    df_sb,      \* the Schedule SB frame
    df_sr,      \* the Schedule R frame (no rows when the argument is None)
    mergeOut,   \* <<>> before the call, then [status, columns, rows]
    \* ---- the de-risking rules applied to one sponsor's yearly rows
    sponsor_df, \* the sponsor's frame: [columns, rows], rows in year order
    rulesOut,   \* <<>> before a rule is evaluated, then the rule's result
    \* ---- _slope and five_year_rate applied to one yearly series
    series,     \* rows [year, value] in year order; a value may be missing
    slopeOut,   \* [slopes, rate]: <<>> until the function has returned
    \* ---- the three analyzers asked about one sponsor
    master_df,  \* the table the analyzers are built on: a sequence of rows
    sponsor_ein,\* the EIN the analyzers are asked about
    agentOut,   \* [derisking, longevity, peer, report]: <<>> until the call returned
    \* ---- one run of a multi-year ingestion engine
    engine,     \* "combine_years" | "load_multi_year_data" | "module_loop"
    loop_year,  \* the year the engine's loop is about to handle
    year_files, \* <<>>, then the files [sb, f5500, sr] of the year handled last
    all_years,  \* the list of (year, merged table) the run has appended to
    run_log,    \* the warnings the run has logged or printed: [year, message]
    run_state,  \* "running" | "returned" | an exception's name
    rows_budget,\* input rows the run may still read (bounds the input size)
    \* ---- normalize_sb_fields applied to one raw Schedule SB table
    sb_raw,     \* the raw frame: [columns, rows], every cell a raw string
    sb_out,     \* <<>> before the call, then the rows of the output
    \* ---- the annuitant ratio of build_master_dataset and build_sponsor_rollup
    plan_rows,  \* the plan rows of one year: counts that may be missing
    ratio_out,  \* <<>>, then [master, rollup]: the ratios of the two tables
    \* ---- one call of a table stage
    stage_args, \* [fn, ...]: the stage called and the tables it is given
    stage_ret,  \* <<>> before the call, then [args, out, fresh]: the caller's
                \* tables after the call, the table returned, and whether the
                \* table returned is a new object
    \* ---- the pipeline run twice on the same input files
    raw_files,  \* the files [sb, f5500, sr] of every year, first year first
    disk,       \* the output directory: [yearly, master], <<>> for no file
    run_pc,     \* "combine" | "master" | "rollup" | "done": the step to run
    run_list,   \* the list combine_years returned last
    run_out,    \* what the run under way has written and returned so far
    runs        \* the records of the runs that are over

pipeVars == <<pc, year, results, rowsLeft, master>>
identVars == <<idKind, idRaw, idNorm, idAgain>>
mergeVars == <<df_5500, df_sb, df_sr, mergeOut>>
rulesVars == <<sponsor_df, rulesOut>>
slopeVars == <<series, slopeOut>>
agentVars == <<master_df, sponsor_ein, agentOut>>
ingestVars == <<engine, loop_year, year_files, all_years, run_log, run_state,
                rows_budget>>
normVars == <<sb_raw, sb_out>>
ratioVars == <<plan_rows, ratio_out>>
stageVars == <<stage_args, stage_ret>>
rebuildVars == <<raw_files, disk, run_pc, run_list, run_out, runs>>
vars == <<pc, year, results, rowsLeft, master, idKind, idRaw, idNorm, idAgain,
          df_5500, df_sb, df_sr, mergeOut, sponsor_df, rulesOut,
          series, slopeOut, master_df, sponsor_ein, agentOut,
          engine, loop_year, year_files, all_years, run_log, run_state,
          rows_budget, sb_raw, sb_out, plan_rows, ratio_out,
          stage_args, stage_ret,
          raw_files, disk, run_pc, run_list, run_out, runs>>

-----------------------------------------------------------------------------
(* Missing values *)

NA == <<>>
Val(x) == <<x>>
IsNA(v) == v = <<>>
NotNA(v) == v # <<>>
Get(v) == v[1]

-----------------------------------------------------------------------------
(* A component that is not run *)

\* pd.DataFrame(): no column, no row
EmptyFrame == [columns |-> {}, rows |-> <<>>]

PipeIdle ==
    /\ pc = "idle"
    /\ year = 0
    /\ results = <<>>
    /\ rowsLeft = 0
    /\ master = <<>>

IdentIdle ==
    /\ idKind = "EIN"
    /\ idRaw = <<>>
    /\ idNorm = <<>>
    /\ idAgain = <<>>

MergeIdle ==
    /\ df_5500 = EmptyFrame
    /\ df_sb = EmptyFrame
    /\ df_sr = EmptyFrame
    /\ mergeOut = <<>>

RulesIdle ==
    /\ sponsor_df = EmptyFrame
    /\ rulesOut = <<>>

NotCalled == [slopes |-> <<>>, rate |-> <<>>]

SlopeIdle ==
    /\ series = <<>>
    /\ slopeOut = NotCalled

NotAsked ==
    [derisking |-> <<>>, longevity |-> <<>>, peer |-> <<>>, report |-> <<>>]

AgentIdle ==
    /\ master_df = <<>>
    /\ sponsor_ein = ""
    /\ agentOut = NotAsked

IngestIdle ==
    /\ engine = "idle"
    /\ loop_year = 0
    /\ year_files = <<>>
    /\ all_years = <<>>
    /\ run_log = <<>>
    /\ run_state = "idle"
    /\ rows_budget = 0

NormIdle ==
    /\ sb_raw = EmptyFrame
    /\ sb_out = <<>>

RatioIdle ==
    /\ plan_rows = <<>>
    /\ ratio_out = <<>>

StageIdle ==
    /\ stage_args = [fn |-> "idle"]
    /\ stage_ret = <<>>

RebuildIdle ==
    /\ raw_files = <<>>
    /\ disk = <<>>
    /\ run_pc = "idle"
    /\ run_list = <<>>
    /\ run_out = <<>>
    /\ runs = <<>>

\* The variables of the components other than the one named.
notPipeVars ==
    <<identVars, mergeVars, rulesVars, slopeVars,
      agentVars, ingestVars, normVars, ratioVars, stageVars,
      rebuildVars>>
notIdentVars ==
    <<pipeVars, mergeVars, rulesVars, slopeVars,
      agentVars, ingestVars, normVars, ratioVars, stageVars,
      rebuildVars>>
notMergeVars ==
    <<pipeVars, identVars, rulesVars, slopeVars,
      agentVars, ingestVars, normVars, ratioVars, stageVars,
      rebuildVars>>
notRulesVars ==
    <<pipeVars, identVars, mergeVars, slopeVars,
      agentVars, ingestVars, normVars, ratioVars, stageVars,
      rebuildVars>>
notSlopeVars ==
    <<pipeVars, identVars, mergeVars, rulesVars,
      agentVars, ingestVars, normVars, ratioVars, stageVars,
      rebuildVars>>
notAgentVars ==
    <<pipeVars, identVars, mergeVars, rulesVars,
      slopeVars, ingestVars, normVars, ratioVars, stageVars,
      rebuildVars>>
notIngestVars ==
    <<pipeVars, identVars, mergeVars, rulesVars,
      slopeVars, agentVars, normVars, ratioVars, stageVars,
      rebuildVars>>
notNormVars ==
    <<pipeVars, identVars, mergeVars, rulesVars,
      slopeVars, agentVars, ingestVars, ratioVars, stageVars,
      rebuildVars>>
notRatioVars ==
    <<pipeVars, identVars, mergeVars, rulesVars,
      slopeVars, agentVars, ingestVars, normVars, stageVars,
      rebuildVars>>
notStageVars ==
    <<pipeVars, identVars, mergeVars, rulesVars,
      slopeVars, agentVars, ingestVars, normVars, ratioVars, rebuildVars>>
notRebuildVars ==
    <<pipeVars, identVars, mergeVars, rulesVars,
      slopeVars, agentVars, ingestVars, normVars, ratioVars, stageVars>>

-----------------------------------------------------------------------------
(* Strings as sequences of characters *)

Str1 == <<"1">>
Str2 == <<"2">>
Dash == <<"-">>

\* Python's str ordering on the characters the model uses (code points).
CharCode(c) ==
    CASE c = " " -> 32 [] c = "+" -> 43 [] c = "-" -> 45
      [] c = "0" -> 48 [] c = "1" -> 49 [] c = "2" -> 50 [] c = "7" -> 55
      [] c = "9" -> 57 [] OTHER -> 127

RECURSIVE StrLess(_, _)
StrLess(s, t) ==
    IF t = <<>> THEN FALSE
    ELSE IF s = <<>> THEN TRUE
    ELSE IF CharCode(Head(s)) # CharCode(Head(t))
         THEN CharCode(Head(s)) < CharCode(Head(t))
    ELSE StrLess(Tail(s), Tail(t))

RECURSIVE LStrip(_)
LStrip(s) == IF s # <<>> /\ Head(s) = " " THEN LStrip(Tail(s)) ELSE s

RECURSIVE RStrip(_)
RStrip(s) ==
    IF s # <<>> /\ s[Len(s)] = " " THEN RStrip(SubSeq(s, 1, Len(s) - 1)) ELSE s

\* str.strip()
Strip(s) == RStrip(LStrip(s))

RECURSIVE Zeros(_)
Zeros(n) == IF n <= 0 THEN <<>> ELSE <<"0">> \o Zeros(n - 1)

\* The width the plan number is padded to: .str.zfill(3)
PlanNumberWidth == 3

\* str.zfill(width): pads with "0" on the left up to width, after a leading
\* sign; a string already that long is returned as it is.
ZFill(s, width) ==
    IF Len(s) >= width THEN s
    ELSE IF s # <<>> /\ Head(s) \in {"+", "-"}
         THEN <<Head(s)>> \o Zeros(width - Len(s)) \o Tail(s)
    ELSE Zeros(width - Len(s)) \o s

\* df['EIN'].astype(str).str.strip()
NormEIN(s) == Strip(s)

\* str.replace(r'\s+', '', regex=True): every blank is removed
RECURSIVE RemoveBlanks(_)
RemoveBlanks(s) ==
    IF s = <<>> THEN <<>>
    ELSE IF Head(s) = " " THEN RemoveBlanks(Tail(s))
    ELSE <<Head(s)>> \o RemoveBlanks(Tail(s))

\* get_col(..., 'str'): the strings that are replaced by None
MissingMarkers == {<<>>, <<"N", "A">>, <<"N", "/", "A">>}

\* astype(str) of a missing value
NanStr == <<"n", "a", "n">>
AsStr(v) == IF IsNA(v) THEN NanStr ELSE Get(v)

\* normalize_sb_fields: out['EIN'] = get_col(FIELD_MAP['EIN'], 'str')
\*                                     .str.replace(r'\s+', '', regex=True)
NormSbEIN(s) ==
    IF Strip(s) \in MissingMarkers THEN NA ELSE Val(RemoveBlanks(Strip(s)))

\* A variant of NormPlanNumber: the plan number is stripped after it is padded.
NormPlanNumberPadFirst(s) == Strip(ZFill(s, PlanNumberWidth))

\* df['PLAN_NUMBER'].astype(str).str.strip().str.zfill(3)
NormPlanNumber(s) == ZFill(Strip(s), PlanNumberWidth)

\* merged['EIN'] + '-' + merged['PLAN_NUMBER']
TrackingId(ein, pn) == ein \o Dash \o pn

-----------------------------------------------------------------------------
(* Multi-year ingestion: combine_years (Spec) *)

\* years=range(2019, 2025): the first year; the model runs NumYears years.
FirstYear == 2019
NumYears == 3
LastYear == FirstYear + NumYears - 1

\* Input rows (Schedule SB, Form 5500 and Schedule R together) one run reads.
MaxRows == 3

PipeEINs == {<<"9">>}
PipePlanNumbers == {Str1, Str2}
CountValues == {1, 3}
SponsorNames == {"ACME"}
FixedIncomePcts == {40}

\* Rows as the loaders hand them over: identifiers are raw strings.
SBRows ==
    [EIN : PipeEINs, PLAN_NUMBER : PipePlanNumbers,
     ACTIVE_COUNT : {Val(v) : v \in CountValues}]
F5500Rows ==
    [EIN : PipeEINs, PLAN_NUMBER : PipePlanNumbers,
     SPONSOR_DFE_NAME : {Val(n) : n \in SponsorNames}]
SRRows ==
    [EIN : PipeEINs, PLAN_NUMBER : PipePlanNumbers,
     ASSET_FIXED_INCOME_PCT : {Val(p) : p \in FixedIncomePcts}]

TablesOf(rows, n) == UNION {[1..k -> rows] : k \in 0..n}

\* A year's source file: absent (os.path.exists is false), or its rows.
Files(rows, n) ==
    {[exists |-> FALSE, rows |-> <<>>]}
        \cup {[exists |-> TRUE, rows |-> t] : t \in TablesOf(rows, n)}

RECURSIVE MapSeq(_, _)
MapSeq(Op(_), s) ==
    IF s = <<>> THEN <<>> ELSE <<Op(Head(s))>> \o MapSeq(Op, Tail(s))

RECURSIVE FlatMap(_, _)
FlatMap(Op(_), s) ==
    IF s = <<>> THEN <<>> ELSE Op(Head(s)) \o FlatMap(Op, Tail(s))

\* df['EIN'] + '-' + df['PLAN_NUMBER'] + '-' + df['PLAN_YEAR'].astype(str);
\* the year is kept as a number beside the two strings.
SbKey(ein, pn, y) == <<ein, pn, y>>

\* normalize_sb(df_sb, plan_year=year) and then the cleaning of EIN and
\* PLAN_NUMBER and the SB_KEY of combine_years
PrepareSB(rows, y) ==
    LET One(r) ==
            LET ein == NormEIN(AsStr(NormSbEIN(r.EIN)))
                pn == NormPlanNumber(NormPlanNumber(r.PLAN_NUMBER))
            IN  [EIN |-> ein, PLAN_NUMBER |-> pn, PLAN_YEAR |-> y,
                 ACTIVE_COUNT |-> r.ACTIVE_COUNT, SB_KEY |-> SbKey(ein, pn, y)]
    IN  MapSeq(One, rows)

\* The cleaning of a supplemental table (Form 5500 or Schedule R) and its
\* restriction to the plans of Schedule SB: df[df['SB_KEY'].isin(df_sb['SB_KEY'])]
PrepareSupplemental(file, sb, y, field) ==
    LET One(r) ==
            LET ein == NormEIN(r.EIN)
                pn == NormPlanNumber(r.PLAN_NUMBER)
            IN  [EIN |-> ein, PLAN_NUMBER |-> pn, PLAN_YEAR |-> y,
                 value |-> r[field], SB_KEY |-> SbKey(ein, pn, y)]
        InSB(r) == \E i \in 1..Len(sb) : sb[i].SB_KEY = r.SB_KEY
    IN  IF file.exists THEN SelectSeq(MapSeq(One, file.rows), InSB) ELSE <<>>

\* A variant of LeftMerge: how='inner', a left row without a right row with
\* its key is dropped.
LeftMergeInner(left, right, field) ==
    LET One(l) ==
            LET SameKey(r) ==
                    /\ r.EIN = l.EIN
                    /\ r.PLAN_NUMBER = l.PLAN_NUMBER
                    /\ r.PLAN_YEAR = l.PLAN_YEAR
                With(r) == [f \in DOMAIN l \cup {field} |->
                               IF f = field THEN r.value ELSE l[f]]
            IN  MapSeq(With, SelectSeq(right, SameKey))
    IN  FlatMap(One, left)

\* pd.merge(left, right, on=['EIN', 'PLAN_NUMBER', 'PLAN_YEAR'], how='left'):
\* the left rows in their order, each once per right row with its key (in the
\* right table's order), or once with a missing value when there is none.
\* The merge is skipped when the right table is empty, and the column is
\* then missing from the table.
LeftMerge(left, right, field) ==
    LET One(l) ==
            LET SameKey(r) ==
                    /\ r.EIN = l.EIN
                    /\ r.PLAN_NUMBER = l.PLAN_NUMBER
                    /\ r.PLAN_YEAR = l.PLAN_YEAR
                hits == SelectSeq(right, SameKey)
                With(r) == [f \in DOMAIN l \cup {field} |->
                               IF f = field THEN r.value ELSE l[f]]
                Without == [f \in DOMAIN l \cup {field} |->
                               IF f = field THEN NA ELSE l[f]]
            IN  IF hits = <<>> THEN <<Without>> ELSE MapSeq(With, hits)
    IN  FlatMap(One, left)

\* One year's merged table: Schedule SB as the base, Form 5500 and then
\* Schedule R left-merged onto it, TRACKING_ID added.
MergeYear(sbRows, f5500, sr, y) ==
    LET sb == PrepareSB(sbRows, y)
        with5500 == LeftMerge(sb, PrepareSupplemental(f5500, sb, y, "SPONSOR_DFE_NAME"),
                              "SPONSOR_DFE_NAME")
        withSR == LeftMerge(with5500,
                            PrepareSupplemental(sr, sb, y, "ASSET_FIXED_INCOME_PCT"),
                            "ASSET_FIXED_INCOME_PCT")
        Track(r) == [f \in DOMAIN r \cup {"TRACKING_ID"} |->
                        IF f = "TRACKING_ID" THEN TrackingId(r.EIN, r.PLAN_NUMBER)
                        ELSE r[f]]
    IN  MapSeq(Track, withSR)

PipeInit ==
    /\ pc = "ingest"
    /\ year = FirstYear
    /\ results = <<>>
    /\ rowsLeft = MaxRows
    /\ master = <<>>

\* for year in years: Schedule SB is missing or empty, the year is skipped.
SkipYear ==
    /\ pc = "ingest"
    /\ year <= LastYear
    /\ \E sbFile \in Files(SBRows, 0) :
          \/ ~sbFile.exists
          \/ sbFile.rows = <<>>
    /\ year' = year + 1
    /\ UNCHANGED <<pc, results, rowsLeft, master>>
    /\ UNCHANGED notPipeVars

\* for year in years: the three files of the year are loaded, cleaned and
\* merged, and (year, merged) is appended to results.
ProcessYear ==
    /\ pc = "ingest"
    /\ year <= LastYear
    /\ \E sbFile \in Files(SBRows, rowsLeft) :
          /\ sbFile.exists
          /\ sbFile.rows # <<>>
          /\ \E f5500 \in Files(F5500Rows, rowsLeft - Len(sbFile.rows)) :
             \E sr \in Files(SRRows, rowsLeft - Len(sbFile.rows) - Len(f5500.rows)) :
                /\ results' = Append(results,
                                  [year |-> year,
                                   merged |-> MergeYear(sbFile.rows, f5500, sr, year)])
                /\ rowsLeft' = rowsLeft - Len(sbFile.rows) - Len(f5500.rows) - Len(sr.rows)
    /\ year' = year + 1
    /\ UNCHANGED <<pc, master>>
    /\ UNCHANGED notPipeVars

-----------------------------------------------------------------------------
(* build_master_dataset *)

\* Order of sort_values(['TRACKING_ID', 'PLAN_YEAR'])
RowBefore(a, b) ==
    \/ StrLess(a.TRACKING_ID, b.TRACKING_ID)
    \/ a.TRACKING_ID = b.TRACKING_ID /\ a.PLAN_YEAR < b.PLAN_YEAR

\* r put into the sorted table t after every row that is not after it
RECURSIVE InsertRow(_, _)
InsertRow(r, t) ==
    IF t = <<>> THEN <<r>>
    ELSE IF RowBefore(r, Head(t)) THEN <<r>> \o t
    ELSE <<Head(t)>> \o InsertRow(r, Tail(t))

\* sort_values: rows with equal keys keep their order
RECURSIVE SortRowsFrom(_, _)
SortRowsFrom(t, acc) ==
    IF t = <<>> THEN acc ELSE SortRowsFrom(Tail(t), InsertRow(Head(t), acc))
SortRows(t) == SortRowsFrom(t, <<>>)

\* a - b on values that may be missing
Minus(a, b) == IF IsNA(a) \/ IsNA(b) THEN NA ELSE Val(Get(a) - Get(b))

\* groupby('TRACKING_ID')[field].diff() at row i of the sorted table: the
\* value less the value of the row before it in the same group, missing for
\* the first row of a group
GroupDiff(t, i, field) ==
    IF i > 1 /\ t[i - 1].TRACKING_ID = t[i].TRACKING_ID
    THEN Minus(t[i][field], t[i - 1][field])
    ELSE NA

\* Rows of all years, each with PLAN_YEAR set to the year of its tuple,
\* cut to the schema, EIN and PLAN_NUMBER stripped, TRACKING_ID rebuilt.
RECURSIVE ConcatYears(_)
ConcatYears(res) ==
    IF res = <<>> THEN <<>>
    ELSE LET y == Head(res).year
             One(r) ==
                 LET ein == Strip(r.EIN)
                     pn == Strip(r.PLAN_NUMBER)
                 IN  [EIN |-> ein, PLAN_NUMBER |-> pn, PLAN_YEAR |-> y,
                      TRACKING_ID |-> TrackingId(ein, pn),
                      ACTIVE_COUNT |-> r.ACTIVE_COUNT,
                      SPONSOR_DFE_NAME |-> r.SPONSOR_DFE_NAME,
                      ASSET_FIXED_INCOME_PCT |-> r.ASSET_FIXED_INCOME_PCT]
         IN  MapSeq(One, Head(res).merged) \o ConcatYears(Tail(res))

\* freezing_flag of the rows of one (EIN, PLAN_NUMBER):
\* (subdf['ACTIVE_YOY_CHANGE'] < 0).sum() >= 2
FreezingFlag(t, ein, pn) ==
    Cardinality({i \in 1..Len(t) :
                    /\ t[i].EIN = ein
                    /\ t[i].PLAN_NUMBER = pn
                    /\ NotNA(t[i].ACTIVE_YOY_CHANGE)
                    /\ Get(t[i].ACTIVE_YOY_CHANGE) < 0}) >= 2

\* The master table of a list of (year, merged) tuples.
MasterOf(res) ==
    LET sorted == SortRows(ConcatYears(res))
        withYoy ==
            [i \in 1..Len(sorted) |->
                [f \in DOMAIN sorted[i]
                        \cup {"ACTIVE_YOY_CHANGE", "FIXED_INCOME_PCT_YOY_CHANGE"} |->
                    CASE f = "ACTIVE_YOY_CHANGE" ->
                            GroupDiff(sorted, i, "ACTIVE_COUNT")
                      [] f = "FIXED_INCOME_PCT_YOY_CHANGE" ->
                            GroupDiff(sorted, i, "ASSET_FIXED_INCOME_PCT")
                      [] OTHER -> sorted[i][f]]]
    IN  [i \in 1..Len(withYoy) |->
            [f \in DOMAIN withYoy[i] \cup {"is_freezing_pattern"} |->
                IF f = "is_freezing_pattern"
                THEN FreezingFlag(withYoy, withYoy[i].EIN, withYoy[i].PLAN_NUMBER)
                ELSE withYoy[i][f]]]

\* build_master_dataset(results) once every year has been processed;
\* pd.concat of an empty list raises ValueError.
BuildMaster ==
    /\ pc = "ingest"
    /\ year > LastYear
    /\ IF results = <<>>
       THEN pc' = "failed" /\ master' = <<>>
       ELSE pc' = "built" /\ master' = MasterOf(results)
    /\ UNCHANGED <<year, results, rowsLeft>>
    /\ UNCHANGED notPipeVars

Init ==
    /\ PipeInit /\ IdentIdle /\ MergeIdle /\ RulesIdle /\ SlopeIdle /\ AgentIdle
    /\ IngestIdle /\ NormIdle /\ RatioIdle /\ StageIdle /\ RebuildIdle

Next == SkipYear \/ ProcessYear \/ BuildMaster

Spec == Init /\ [][Next]_vars

\* Rows i and j of the master table are two rows of one plan-year.
SamePlanYear(i, j) ==
    /\ i # j
    /\ master[i].TRACKING_ID = master[j].TRACKING_ID
    /\ master[i].PLAN_YEAR = master[j].PLAN_YEAR

UniquePlanYears ==
    \A i, j \in 1..Len(master) : ~SamePlanYear(i, j)

\* C1: after a run of combine_years over all years and build_master_dataset,
\* every (TRACKING_ID, PLAN_YEAR) pair appears at most once in the master
\* table, whatever rows Schedule SB, Form 5500 and Schedule R hold.
C1_UniquePlanYear == pc = "built" => UniquePlanYears

\* The value of field for plan tid in year y when the master table has
\* exactly one row for it, else missing.
RowsOf(tid, y) ==
    {i \in 1..Len(master) : master[i].TRACKING_ID = tid /\ master[i].PLAN_YEAR = y}

\* Row i carries the year-over-year change the design asks for: the
\* difference to the plan's row of the year before when there is one,
\* missing otherwise.
YoyAsDesigned(i) ==
    LET prev == RowsOf(master[i].TRACKING_ID, master[i].PLAN_YEAR - 1)
    IN  IF prev = {}
        THEN IsNA(master[i].ACTIVE_YOY_CHANGE)
        ELSE \E j \in prev :
                master[i].ACTIVE_YOY_CHANGE
                    = Minus(master[i].ACTIVE_COUNT, master[j].ACTIVE_COUNT)

\* C6: in the master table the year-over-year change of a metric at year Y
\* is M(Y) - M(Y-1) when the plan has a row for Y-1 and is missing
\* otherwise (first year of the plan, year after a gap).  Stated for tables
\* with one row per plan-year, so that it does not rest on C1.
C6_YoyOnlyAgainstPriorYear ==
    (pc = "built" /\ UniquePlanYears) =>
        \A i \in 1..Len(master) : YoyAsDesigned(i)

-----------------------------------------------------------------------------
(* Identifier normalisation applied to raw strings (SpecIdent) *)

\* Longest raw identifier string drawn.
MaxRawLen == 4

Chars == {" ", "0", "7", "-"}
RawStrings == UNION {[1..n -> Chars] : n \in 0..MaxRawLen}

RECURSIVE Spaces(_)
Spaces(n) == IF n <= 0 THEN <<>> ELSE <<" ">> \o Spaces(n - 1)

\* Strings with no blank at either end: what is left of a raw identifier
\* once the surrounding blanks are taken away.
Cores == {s \in RawStrings : s = <<>> \/ (Head(s) # " " /\ s[Len(s)] # " ")}

\* core with i blanks and k zeros put before it and j blanks after it
Decorate(core, i, k, j) == Spaces(i) \o Zeros(k) \o core \o Spaces(j)

\* The raw spellings of core: surrounding blanks, and for a plan number
\* leading zeros, within MaxRawLen characters.
Spellings(core, kind) ==
    LET room == MaxRawLen - Len(core)
    IN  {Decorate(core, t[1], t[2], t[3]) :
            t \in {u \in (0..room) \X (0..room) \X (0..room) :
                      /\ u[1] + u[2] + u[3] <= room
                      /\ (kind # "PLAN_NUMBER" => u[2] = 0)}}

IdKinds == {"EIN", "SB_EIN", "PLAN_NUMBER"}

\* The normalisation a field goes through on its way into TRACKING_ID:
\* an EIN of Form 5500 / Schedule R through combine_years, an EIN of
\* Schedule SB through normalize_sb_fields and then combine_years, a plan
\* number through strip and zfill(3).
NormalizeId(kind, s) ==
    CASE kind = "EIN" -> NormEIN(s)
      [] kind = "SB_EIN" -> NormEIN(AsStr(NormSbEIN(s)))
      [] OTHER -> NormPlanNumber(s)

\* The other half of the TRACKING_ID built around a normalised field.
OtherHalf == <<"9">>
TrackingIdOf(kind, n) ==
    IF kind = "PLAN_NUMBER" THEN TrackingId(OtherHalf, n)
    ELSE TrackingId(n, NormPlanNumber(OtherHalf))

InitIdent ==
    /\ PipeIdle
    /\ MergeIdle
    /\ RulesIdle
    /\ SlopeIdle
    /\ AgentIdle
    /\ IngestIdle /\ NormIdle /\ RatioIdle /\ StageIdle /\ RebuildIdle
    /\ idKind \in IdKinds
    /\ \E core \in Cores :
          idRaw \in Spellings(core, idKind) \X Spellings(core, idKind)
    /\ idNorm = <<>>
    /\ idAgain = <<>>

\* The two raw strings are normalised.
NormalizeIds ==
    /\ idRaw # <<>>
    /\ idNorm = <<>>
    /\ idNorm' = <<NormalizeId(idKind, idRaw[1]), NormalizeId(idKind, idRaw[2])>>
    /\ UNCHANGED <<idKind, idRaw, idAgain>>
    /\ UNCHANGED notIdentVars

\* The normalised strings are normalised once more (a later stage that
\* cleans the identifiers it is given again).
NormalizeAgain ==
    /\ idNorm # <<>>
    /\ idAgain = <<>>
    /\ idAgain' = <<NormalizeId(idKind, idNorm[1]), NormalizeId(idKind, idNorm[2])>>
    /\ UNCHANGED <<idKind, idRaw, idNorm>>
    /\ UNCHANGED notIdentVars

NextIdent == NormalizeIds \/ NormalizeAgain

SpecIdent == InitIdent /\ [][NextIdent]_vars

Digits == {"0", "1", "2", "3", "4", "5", "6", "7", "8", "9"}
DigitsAndBlanks(s) == \A i \in 1..Len(s) : s[i] \in Digits \cup {" "}

\* Both raw strings normalise to the same field, hence the same TRACKING_ID.
SameNormalized ==
    idNorm # <<>> =>
        /\ idNorm[1] = idNorm[2]
        /\ TrackingIdOf(idKind, idNorm[1]) = TrackingIdOf(idKind, idNorm[2])

\* Normalising the normalised strings changed nothing.
NormalizedIsFixed == idAgain # <<>> => idAgain = idNorm

\* C2 as stated: two raw identifier strings that differ only in surrounding
\* whitespace or in leading zero-padding of the plan number normalise to
\* the same EIN / PLAN_NUMBER and TRACKING_ID, and normalising a normalised
\* identifier leaves it unchanged.  (Every pair SpecIdent draws differs in
\* that way only.)
C2_StableForAnyPadding == SameNormalized /\ NormalizedIsFixed

\* The pairs the amended C2 covers: strings of digits and blanks, and when
\* two plan numbers differ in their leading zeros, both are at most
\* PlanNumberWidth characters long once stripped.
C2_Covered ==
    /\ idRaw # <<>>
    /\ DigitsAndBlanks(idRaw[1])
    /\ DigitsAndBlanks(idRaw[2])
    /\ (idKind = "PLAN_NUMBER" /\ Strip(idRaw[1]) # Strip(idRaw[2])) =>
            /\ Len(Strip(idRaw[1])) <= PlanNumberWidth
            /\ Len(Strip(idRaw[2])) <= PlanNumberWidth

\* C2 (amended): for raw identifiers made of digits and blanks, two strings
\* that differ only in surrounding whitespace, or in leading zeros of a plan
\* number of at most 3 characters, normalise to the same EIN / PLAN_NUMBER
\* and TRACKING_ID, and normalising the result again leaves it unchanged.
C2_StableUpToWidth == C2_Covered => (SameNormalized /\ NormalizedIsFixed)

\* C2 witness: the plan numbers " 7" and "007" have been normalised, and
\* normalised again.
C2_Witness ==
    /\ idKind = "PLAN_NUMBER"
    /\ idRaw = <<(<<" ", "7">>), (<<"0", "0", "7">>)>>
    /\ idNorm # <<>>
    /\ idAgain # <<>>
    /\ C2_Covered

-----------------------------------------------------------------------------
(* merge_sb_5500 (SpecMerge) *)

\* Rows a frame handed to merge_sb_5500 holds at most.
MaxMergeRows == 2

MergeYears == {2021}
AckIds == {"A1", "A2", "A3"}

\* Rows of the three frames as the loaders hand them over.  ACK_ID is a
\* column of some files only.
Rows5500(ack) ==
    IF ack
    THEN [ACK_ID : {Val(a) : a \in AckIds}, EIN : PipeEINs,
          PLAN_NUMBER : PipePlanNumbers, PLAN_YEAR : MergeYears,
          SPONSOR_DFE_NAME : {Val(n) : n \in SponsorNames}]
    ELSE [EIN : PipeEINs, PLAN_NUMBER : PipePlanNumbers, PLAN_YEAR : MergeYears,
          SPONSOR_DFE_NAME : {Val(n) : n \in SponsorNames}]
RowsSB(ack) ==
    IF ack
    THEN [ACK_ID : {Val(a) : a \in AckIds}, EIN : PipeEINs,
          PLAN_NUMBER : PipePlanNumbers, PLAN_YEAR : MergeYears,
          ACTIVE_COUNT : {Val(1)}]
    ELSE [EIN : PipeEINs, PLAN_NUMBER : PipePlanNumbers, PLAN_YEAR : MergeYears,
          ACTIVE_COUNT : {Val(1)}]
RowsSR ==
    [EIN : PipeEINs, PLAN_NUMBER : {Str1}, PLAN_YEAR : MergeYears,
     ASSET_FIXED_INCOME_PCT : {Val(p) : p \in FixedIncomePcts}]

Columns5500(ack) ==
    {"EIN", "PLAN_NUMBER", "PLAN_YEAR", "SPONSOR_DFE_NAME"}
        \cup (IF ack THEN {"ACK_ID"} ELSE {})
ColumnsSB(ack) ==
    {"EIN", "PLAN_NUMBER", "PLAN_YEAR", "ACTIVE_COUNT"}
        \cup (IF ack THEN {"ACK_ID"} ELSE {})
ColumnsSR == {"EIN", "PLAN_NUMBER", "PLAN_YEAR", "ASSET_FIXED_INCOME_PCT"}

Frames5500 ==
    UNION {{[columns |-> Columns5500(ack), rows |-> t] :
                t \in TablesOf(Rows5500(ack), MaxMergeRows)} : ack \in BOOLEAN}
FramesSB ==
    UNION {{[columns |-> ColumnsSB(ack), rows |-> t] :
                t \in TablesOf(RowsSB(ack), MaxMergeRows)} : ack \in BOOLEAN}
\* df_sr=None becomes pd.DataFrame(); a frame without rows behaves the same.
FramesSR ==
    {EmptyFrame} \cup {[columns |-> ColumnsSR, rows |-> <<r>>] : r \in RowsSR}

\* Lines 35-50: a frame with rows gets PLAN_NUMBER stripped and zero-padded
\* and EIN stripped; without a plan number column its rows are dropped.  A
\* frame without rows is left as it is.
NormalizeKeys(df) ==
    LET One(r) ==
            [c \in DOMAIN r |->
                CASE c = "PLAN_NUMBER" -> NormPlanNumber(r.PLAN_NUMBER)
                  [] c = "EIN" -> Strip(r.EIN)
                  [] OTHER -> r[c]]
    IN  IF df.rows = <<>> THEN df
        ELSE IF "PLAN_NUMBER" \notin df.columns
             THEN [columns |-> df.columns, rows |-> <<>>]
        ELSE [columns |-> df.columns, rows |-> MapSeq(One, df.rows)]

\* on=['EIN', 'PLAN_NUMBER', 'PLAN_YEAR']
TripleKey == {"EIN", "PLAN_NUMBER", "PLAN_YEAR"}

\* suffixes=("_5500", "_SB"): the name a column of one frame takes in the
\* merged frame; only a column that both frames hold and that is not a key
\* is renamed.
Suffixed(c, other, keys, suffix) ==
    IF c \in other /\ c \notin keys THEN c \o suffix ELSE c

\* The columns of pd.merge(left, right, on=keys, suffixes=("_5500", "_SB"))
MergeColumns(lc, rc, keys) ==
    keys \cup {Suffixed(c, rc, keys, "_5500") : c \in lc \ keys}
         \cup {Suffixed(c, lc, keys, "_SB") : c \in rc \ keys}

\* pd.merge(left, right, on=keys, how='outer'): every pair of rows with equal
\* keys, a left row without partner with the right columns missing, and a
\* right row without partner with the left columns missing.  (The order of
\* the rows differs between pandas versions; nothing below depends on it.)
OuterMerge(left, right, keys) ==
    LET cols == MergeColumns(left.columns, right.columns, keys)
        FromLeft(c) == \E x \in left.columns \ keys :
                          Suffixed(x, right.columns, keys, "_5500") = c
        LeftCol(c) == CHOOSE x \in left.columns \ keys :
                          Suffixed(x, right.columns, keys, "_5500") = c
        RightCol(c) == CHOOSE x \in right.columns \ keys :
                          Suffixed(x, left.columns, keys, "_SB") = c
        Joined(l, r, hasL, hasR) ==
            [c \in cols |->
                IF c \in keys THEN (IF hasL THEN l[c] ELSE r[c])
                ELSE IF FromLeft(c) THEN (IF hasL THEN l[LeftCol(c)] ELSE NA)
                ELSE (IF hasR THEN r[RightCol(c)] ELSE NA)]
        SameKey(l, r) == \A k \in keys : l[k] = r[k]
        OneLeft(l) ==
            LET Hit(r) == SameKey(l, r)
                Pair(r) == Joined(l, r, TRUE, TRUE)
                hits == SelectSeq(right.rows, Hit)
            IN  IF hits = <<>> THEN <<Joined(l, l, TRUE, FALSE)>>
                ELSE MapSeq(Pair, hits)
        Alone(r) == \A i \in 1..Len(left.rows) : ~SameKey(left.rows[i], r)
        RightOnly(r) == Joined(r, r, FALSE, TRUE)
    IN  FlatMap(OneLeft, left.rows)
            \o MapSeq(RightOnly, SelectSeq(right.rows, Alone))


\* The Schedule R columns every result carries (sr_cols).
SrCols ==
    {"ASSET_EQUITY_PCT", "ASSET_FIXED_INCOME_PCT", "ASSET_REAL_ESTATE_PCT",
     "ASSET_ALTERNATIVES_PCT", "ASSET_CASH_PCT", "ANNUITY_PURCHASES",
     "TRANSFERRED_TO_INSURERS", "BENEFITS_PAID", "CONTRIBUTIONS"}

\* A call that ends in an exception returns no frame.
Raised(exception) == [status |-> exception, columns |-> {}, rows |-> <<>>]

\* merge_sb_5500(df_5500, df_sb, df_sr).
\*  - Lines 54-90: the outer merge, on ACK_ID when both frames hold that
\*    column and on (EIN, PLAN_NUMBER, PLAN_YEAR) otherwise; sb_merge_flag is
\*    "EIN_SB is present" when the merged frame has a column EIN_SB and
\*    False otherwise.  The secondary merge of lines 64-79 only fills the
\*    *_SB columns and sb_merge_flag of a frame merged on ACK_ID.
\*  - Line 95 reads merged['EIN'] and merged['PLAN_NUMBER'] and raises
\*    KeyError when the merge has renamed them (EIN_5500 / EIN_SB), which is
\*    the case for every frame merged on ACK_ID: lines 43 and 48 leave both
\*    frames with these columns.
\*  - Lines 98-107 merge a Schedule R frame with rows on EIN_5500,
\*    PLAN_NUMBER_5500, PLAN_YEAR_5500: columns that a frame which passed
\*    line 95 does not have, so that merge raises KeyError.
\*  - Lines 113-116: merge_quality is 2 * sb_merge_flag, and 1 where
\*    sb_merge_flag holds and ACK_ID is missing.
merge_sb_5500(f0, s0, r0) ==
    LET f == NormalizeKeys(f0)
        sb == NormalizeKeys(s0)
        sr == NormalizeKeys(r0)
        byAck == "ACK_ID" \in f.columns /\ "ACK_ID" \in sb.columns
        keys == IF byAck THEN {"ACK_ID"} ELSE TripleKey
        cols == MergeColumns(f.columns, sb.columns, keys)
        outer == OuterMerge(f, sb, keys)
        Flag(row) == IF "EIN_SB" \in cols THEN NotNA(row.EIN_SB) ELSE FALSE
        Quality(row) ==
            IF "EIN_SB" \in cols /\ Flag(row) /\ IsNA(row.ACK_ID) THEN 1
            ELSE IF Flag(row) THEN 2
            ELSE 0
        allCols == cols \cup SrCols
                        \cup {"sb_merge_flag", "TRACKING_ID", "sr_merge_flag",
                              "merge_quality"}
        Final(row) ==
            [c \in allCols |->
                CASE c = "sb_merge_flag" -> Flag(row)
                  [] c = "TRACKING_ID" ->
                        TrackingId(Strip(row.EIN), Strip(row.PLAN_NUMBER))
                  [] c = "sr_merge_flag" -> FALSE
                  [] c = "merge_quality" -> Quality(row)
                  [] c \in {"EIN", "PLAN_NUMBER"} -> Strip(row[c])
                  [] c \in cols \ {"EIN", "PLAN_NUMBER"} -> row[c]
                  [] OTHER -> NA]
    IN  IF ~(keys \subseteq f.columns /\ keys \subseteq sb.columns)
        THEN Raised("KeyError")
        ELSE IF ~({"EIN", "PLAN_NUMBER"} \subseteq cols)
        THEN Raised("KeyError")
        ELSE IF sr.rows # <<>>
        THEN Raised("KeyError")
        ELSE [status |-> "ok", columns |-> allCols, rows |-> MapSeq(Final, outer)]

InitMerge ==
    /\ PipeIdle
    /\ IdentIdle
    /\ RulesIdle
    /\ SlopeIdle
    /\ AgentIdle
    /\ IngestIdle /\ NormIdle /\ RatioIdle /\ StageIdle /\ RebuildIdle
    /\ df_5500 \in Frames5500
    /\ df_sb \in FramesSB
    /\ df_sr \in FramesSR
    /\ mergeOut = <<>>

\* merged = merge_sb_5500(df_5500, df_sb, df_sr)
CallMerge ==
    /\ mergeOut = <<>>
    /\ mergeOut' = merge_sb_5500(df_5500, df_sb, df_sr)
    /\ UNCHANGED <<df_5500, df_sb, df_sr>>
    /\ UNCHANGED notMergeVars

NextMerge == CallMerge

SpecMerge == InitMerge /\ [][NextMerge]_vars

\* The rows of the two frames as the merge compares them.
In5500 == NormalizeKeys(df_5500).rows
InSB == NormalizeKeys(df_sb).rows

\* The ACK_ID of a row of a frame, missing when the frame has no such column.
AckOf(df, row) == IF "ACK_ID" \in df.columns THEN row.ACK_ID ELSE NA

\* Row f of Form 5500 and row s of Schedule SB carry the same ACK_ID.
AckMatched(f, s) ==
    /\ NotNA(AckOf(df_5500, f))
    /\ AckOf(df_5500, f) = AckOf(df_sb, s)

\* Row f and row s are filings of the same plan-year.
TripleMatched(f, s) ==
    /\ f.EIN = s.EIN
    /\ f.PLAN_NUMBER = s.PLAN_NUMBER
    /\ f.PLAN_YEAR = s.PLAN_YEAR

\* Both frames carry ACK_ID, the ACK_IDs of f and s have no counterpart in
\* the other frame, and f and s are filings of the same plan-year.
FallbackOnly(f, s) ==
    /\ NotNA(AckOf(df_5500, f))
    /\ NotNA(AckOf(df_sb, s))
    /\ TripleMatched(f, s)
    /\ \A j \in 1..Len(InSB) : ~AckMatched(f, InSB[j])
    /\ \A i \in 1..Len(In5500) : ~AckMatched(In5500[i], s)

\* The call returned a frame.
Returned == mergeOut # <<>> /\ mergeOut.status = "ok"

\* The rows of the returned frame for a plan-year.
OutRowsOf(ein, pn, y) ==
    {k \in 1..Len(mergeOut.rows) :
        /\ mergeOut.rows[k].EIN = ein
        /\ mergeOut.rows[k].PLAN_NUMBER = pn
        /\ mergeOut.rows[k].PLAN_YEAR = y}

\* The plan-year of row f has rows in the returned frame, each with
\* merge_quality q.
ReportedWith(f, q) ==
    /\ Returned
    /\ OutRowsOf(f.EIN, f.PLAN_NUMBER, f.PLAN_YEAR) # {}
    /\ \A k \in OutRowsOf(f.EIN, f.PLAN_NUMBER, f.PLAN_YEAR) :
          mergeOut.rows[k].merge_quality = q

\* Called with the two frames only (df_sr=None), as every caller does.
TwoFrameCall == mergeOut # <<>> /\ df_sr.rows = <<>>

\* C3: a Form 5500 row and a Schedule SB row whose ACK_IDs have no
\* counterpart in the other frame but whose (EIN, PLAN_NUMBER, PLAN_YEAR)
\* agree are reported with merge_quality 1.
C3_FallbackMatchIsSecondary ==
    TwoFrameCall =>
        \A i \in 1..Len(In5500), j \in 1..Len(InSB) :
            FallbackOnly(In5500[i], InSB[j]) => ReportedWith(In5500[i], 1)

\* The ACK_ID of f is held by one row of each frame.
AckUnique(f) ==
    /\ Cardinality({i \in 1..Len(In5500) : AckMatched(f, In5500[i])}) = 1
    /\ Cardinality({j \in 1..Len(InSB) : AckMatched(f, InSB[j])}) = 1

\* C4: a plan-year that is in both frames under the same ACK_ID has exactly
\* one row in the returned frame, with merge_quality 2 and the Schedule SB
\* fields populated.
C4_CleanMatchIsPrimary ==
    TwoFrameCall =>
        \A i \in 1..Len(In5500), j \in 1..Len(InSB) :
            (AckMatched(In5500[i], InSB[j]) /\ AckUnique(In5500[i])) =>
                /\ Returned
                /\ \E k \in 1..Len(mergeOut.rows) :
                      /\ mergeOut.rows[k].ACK_ID = In5500[i].ACK_ID
                      /\ mergeOut.rows[k].merge_quality = 2
                      /\ NotNA(mergeOut.rows[k].ACTIVE_COUNT)
                      /\ \A m \in 1..Len(mergeOut.rows) :
                            mergeOut.rows[m].ACK_ID = In5500[i].ACK_ID => m = k

\* A row of the returned frame that has no partner: its Form 5500 part or
\* its Schedule SB part is missing.
Unmatched(row) == IsNA(row.SPONSOR_DFE_NAME) \/ IsNA(row.ACTIVE_COUNT)

-----------------------------------------------------------------------------
(* Floating-point numbers of the slopes and of the peer statistics *)

\* A number is a pair <<n, d>> with d >= 0: the rational n/d when d > 0,
\* +inf for <<1, 0>> and -inf for <<-1, 0>>.  NaN is the missing value NA,
\* as in a pandas column.  The arithmetic is exact: rounding is not modelled.
Num(n, d) == Val(<<n, d>>)
NaN == NA
PosInf == Num(1, 0)
NegInf == Num(0 - 1, 0)
Zero == Num(0, 1)
One == Num(1, 1)

Sgn(x) == IF x > 0 THEN 1 ELSE IF x < 0 THEN 0 - 1 ELSE 0
Abs(x) == IF x < 0 THEN 0 - x ELSE x

RECURSIVE GCD(_, _)
GCD(a, b) == IF b = 0 THEN a ELSE GCD(b, a % b)

\* n/d in lowest terms with a positive denominator (d # 0)
Ratio(n, d) ==
    LET g == GCD(Abs(n), Abs(d))
    IN  Num(Sgn(d) * (n \div g), Abs(d) \div g)

\* An integer cell of a table as a number
FromInt(v) == IF IsNA(v) THEN NaN ELSE Num(Get(v), 1)

IsInf(a) == NotNA(a) /\ Get(a)[2] = 0
IsFinite(a) == NotNA(a) /\ Get(a)[2] > 0

\* a - b
FSub(a, b) ==
    IF IsNA(a) \/ IsNA(b) THEN NaN
    ELSE IF IsInf(a) /\ IsInf(b)
         THEN (IF Get(a)[1] = Get(b)[1] THEN NaN ELSE a)
    ELSE IF IsInf(a) THEN a
    ELSE IF IsInf(b) THEN Num(0 - Get(b)[1], 0)
    ELSE Ratio(Get(a)[1] * Get(b)[2] - Get(b)[1] * Get(a)[2],
               Get(a)[2] * Get(b)[2])

\* a / b for finite a and b: x/0 is +inf or -inf by the sign of x, 0/0 is NaN
FDiv(a, b) ==
    IF IsNA(a) \/ IsNA(b) THEN NaN
    ELSE IF Get(b)[1] = 0
         THEN (IF Get(a)[1] = 0 THEN NaN ELSE Num(Sgn(Get(a)[1]), 0))
    ELSE Ratio(Get(a)[1] * Get(b)[2], Get(a)[2] * Get(b)[1])

\* a + b and a * b for finite a and b
FAdd(a, b) ==
    IF IsNA(a) \/ IsNA(b) THEN NaN
    ELSE Ratio(Get(a)[1] * Get(b)[2] + Get(b)[1] * Get(a)[2],
               Get(a)[2] * Get(b)[2])
FMul(a, b) ==
    IF IsNA(a) \/ IsNA(b) THEN NaN
    ELSE Ratio(Get(a)[1] * Get(b)[1], Get(a)[2] * Get(b)[2])

RECURSIVE FSum(_)
FSum(q) == IF q = <<>> THEN Zero ELSE FAdd(Head(q), FSum(Tail(q)))

\* Series.mean(): the mean of the values that are not NaN, NaN without any
Mean(q) ==
    LET kept == SelectSeq(q, NotNA)
    IN  IF kept = <<>> THEN NaN ELSE FDiv(FSum(kept), Num(Len(kept), 1))

\* The square of Series.std(): the sample variance (ddof=1) of the values
\* that are not NaN, NaN for fewer than 2 of them
Variance(q) ==
    LET kept == SelectSeq(q, NotNA)
        mu == Mean(kept)
        sq == [i \in 1..Len(kept) |->
                  FMul(FSub(kept[i], mu), FSub(kept[i], mu))]
    IN  IF Len(kept) < 2 THEN NaN
        ELSE FDiv(FSum(sq), Num(Len(kept) - 1, 1))

\* a < b; every comparison with NaN is False
FLess(a, b) ==
    IF IsNA(a) \/ IsNA(b) THEN FALSE
    ELSE IF IsInf(a) /\ IsInf(b) THEN Get(a)[1] < Get(b)[1]
    ELSE Get(a)[1] * Get(b)[2] < Get(b)[1] * Get(a)[2]

FGreater(a, b) == FLess(b, a)

-----------------------------------------------------------------------------
(* binary64 arithmetic of the rules *)

\* The rules of derisking_agent.py compare quotients of counts with decimal
\* thresholds, where the rounding of the float64 columns decides: 85/100 - 1
\* is -0.15000000000000002, below the literal -0.15.  Their numbers are
\* binary64 values in full: NaN is NA, any other number is a sign (-1, 0, 1),
\* an infinity mark, and a magnitude in fixed point, IntBits bits before the
\* binary point and FracBits after it, most significant bit first.  The
\* format holds every binary64 value of magnitude in [2^-11, 2^IntBits)
\* exactly; the counts and percentages of the tables are whole numbers below
\* 2^IntBits.  The arithmetic works on limbs of LimbBits bits.
IntLimbs == 1
FracLimbs == 8
LimbBits == 8

\* Bits of the significand of binary64.
Mantissa == 53

IntBits == IntLimbs * LimbBits
FracBits == FracLimbs * LimbBits

RECURSIVE Pow2(_)
Pow2(k) == IF k = 0 THEN 1 ELSE 2 * Pow2(k - 1)

ZeroBits(k) == [i \in 1..k |-> 0]

\* n as k bits
RECURSIVE NatBits(_, _)
NatBits(n, k) ==
    IF k = 0 THEN <<>> ELSE NatBits(n \div 2, k - 1) \o <<n % 2>>

\* The number k bits stand for
RECURSIVE BitsNat(_)
BitsNat(bits) ==
    IF bits = <<>> THEN 0
    ELSE 2 * BitsNat(SubSeq(bits, 1, Len(bits) - 1)) + bits[Len(bits)]

\* Limb j of bits
LimbOf(bits, j) == BitsNat(SubSeq(bits, (j - 1) * LimbBits + 1, j * LimbBits))

\* The first k limbs of the binary fraction rem/d (rem < d) and the
\* remainder they leave
RECURSIVE FracDigits(_, _, _)
FracDigits(rem, d, k) ==
    IF k = 0 THEN [bits |-> <<>>, rem |-> rem]
    ELSE LET t == rem * Pow2(LimbBits)
             rest == FracDigits(t % d, d, k - 1)
         IN  [bits |-> NatBits(t \div d, LimbBits) \o rest.bits, rem |-> rest.rem]

\* The position of the first 1 of bits, 0 without any
LeadingOne(bits) ==
    IF \E i \in 1..Len(bits) : bits[i] = 1
    THEN CHOOSE i \in 1..Len(bits) :
            bits[i] = 1 /\ \A j \in 1..(i - 1) : bits[j] = 0
    ELSE 0

\* a + b and a - b (a >= b) of magnitudes, from the last limb to the first
RECURSIVE AddUpTo(_, _, _, _, _)
AddUpTo(a, b, j, carry, acc) ==
    IF j = 0 THEN acc
    ELSE LET t == LimbOf(a, j) + LimbOf(b, j) + carry
         IN  AddUpTo(a, b, j - 1, t \div Pow2(LimbBits),
                     NatBits(t % Pow2(LimbBits), LimbBits) \o acc)
RECURSIVE SubUpTo(_, _, _, _, _)
SubUpTo(a, b, j, borrow, acc) ==
    IF j = 0 THEN acc
    ELSE LET t == LimbOf(a, j) - LimbOf(b, j) - borrow
         IN  SubUpTo(a, b, j - 1, IF t < 0 THEN 1 ELSE 0,
                     NatBits((t + Pow2(LimbBits)) % Pow2(LimbBits), LimbBits) \o acc)
MagAdd(a, b) == AddUpTo(a, b, Len(a) \div LimbBits, 0, <<>>)
MagSub(a, b) == SubUpTo(a, b, Len(a) \div LimbBits, 0, <<>>)

\* bits plus one unit of position p
AddOneAt(bits, p) ==
    MagAdd(bits, [i \in 1..Len(bits) |-> IF i = p THEN 1 ELSE 0])

\* Round to nearest, ties to even: the value bits (plus something below the
\* last bit when sticky) with Mantissa significant bits
RoundNearestEven(bits, sticky) ==
    LET n == Len(bits)
        p == LeadingOne(bits)
        last == p + Mantissa - 1
        kept == [i \in 1..n |-> IF i <= last THEN bits[i] ELSE 0]
        below == sticky \/ \E i \in (last + 2)..n : bits[i] = 1
    IN  IF p = 0 \/ last >= n THEN bits
        ELSE IF bits[last + 1] = 1 /\ (below \/ bits[last] = 1)
        THEN AddOneAt(kept, last)
        ELSE kept

\* a < b of magnitudes
MagLess(a, b) ==
    \E i \in 1..Len(a) :
        a[i] < b[i] /\ \A j \in 1..(i - 1) : a[j] = b[j]

Dbl(sgn, mag) == Val([sgn |-> sgn, inf |-> FALSE, mag |-> mag])
DInf(sgn) == Val([sgn |-> sgn, inf |-> TRUE, mag |-> ZeroBits(IntBits + FracBits)])
DZero == Dbl(0, ZeroBits(IntBits + FracBits))

\* A whole number as a float
DFromNat(n) ==
    IF n = 0 THEN DZero ELSE Dbl(1, NatBits(n, IntBits) \o ZeroBits(FracBits))
DOne == DFromNat(1)

\* A cell of a table as a float
DFromInt(v) == IF IsNA(v) THEN NaN ELSE DFromNat(Get(v))

\* The whole number a float holds
DNat(a) == BitsNat(SubSeq(Get(a).mag, 1, IntBits))

\* n / d correctly rounded (n >= 0, d > 0); also the value of the decimal
\* literal n/d
DQuotient(n, d) ==
    LET frac == FracDigits(n % d, d, FracLimbs)
    IN  IF n = 0 THEN DZero
        ELSE Dbl(1, RoundNearestEven(NatBits(n \div d, IntBits) \o frac.bits,
                                     frac.rem # 0))

\* -a
DNeg(a) ==
    IF IsNA(a) THEN NaN ELSE Val([Get(a) EXCEPT !.sgn = 0 - Get(a).sgn])

\* a / b of two columns of whole numbers: x/0 is inf, 0/0 is NaN
DDiv(a, b) ==
    IF IsNA(a) \/ IsNA(b) THEN NaN
    ELSE IF Get(b).sgn = 0
         THEN (IF Get(a).sgn = 0 THEN NaN ELSE DInf(Get(a).sgn))
    ELSE DQuotient(DNat(a), DNat(b))

\* a + b
DAdd(a, b) ==
    IF IsNA(a) \/ IsNA(b) THEN NaN
    ELSE LET x == Get(a)
             y == Get(b)
         IN  IF x.inf /\ y.inf THEN (IF x.sgn = y.sgn THEN a ELSE NaN)
             ELSE IF x.inf THEN a
             ELSE IF y.inf THEN b
             ELSE IF x.sgn = 0 THEN b
             ELSE IF y.sgn = 0 THEN a
             ELSE IF x.sgn = y.sgn
                  THEN Dbl(x.sgn, RoundNearestEven(MagAdd(x.mag, y.mag), FALSE))
             ELSE IF x.mag = y.mag THEN DZero
             ELSE IF MagLess(y.mag, x.mag)
                  THEN Dbl(x.sgn, RoundNearestEven(MagSub(x.mag, y.mag), FALSE))
             ELSE Dbl(y.sgn, RoundNearestEven(MagSub(y.mag, x.mag), FALSE))

\* a - b
DSub(a, b) == DAdd(a, DNeg(b))

\* a < b; every comparison with NaN is False
DLess(a, b) ==
    IF IsNA(a) \/ IsNA(b) THEN FALSE
    ELSE LET x == Get(a)
             y == Get(b)
         IN  IF x.sgn # y.sgn THEN x.sgn < y.sgn
             ELSE IF x.inf \/ y.inf
                  THEN (IF x.sgn > 0 THEN ~x.inf /\ y.inf ELSE x.inf /\ ~y.inf)
             ELSE IF x.sgn > 0 THEN MagLess(x.mag, y.mag)
             ELSE IF x.sgn < 0 THEN MagLess(y.mag, x.mag)
             ELSE FALSE

DGreater(a, b) == DLess(b, a)

\* fillna(0)
DFillNa0(a) == IF IsNA(a) THEN DZero ELSE a

-----------------------------------------------------------------------------
(* _slope and five_year_rate (SpecSlope) *)

\* Years a series spans at most.
SlopeYears == 5

SlopeValues == {NA} \cup {Val(v) : v \in {0, 1, 3}}

\* The series over the years y..last: every year has no row, or a row whose
\* value is missing or a count.
RECURSIVE SeriesFrom(_, _)
SeriesFrom(y, last) ==
    IF y > last THEN {<<>>}
    ELSE LET rest == SeriesFrom(y + 1, last)
         IN  rest \cup {<<[year |-> y, value |-> v]>> \o t :
                            v \in SlopeValues, t \in rest}

RECURSIVE SumSeq(_)
SumSeq(q) == IF q = <<>> THEN 0 ELSE Head(q) + SumSeq(Tail(q))

\* np.polyfit(x, y, 1)[0] for x = np.arange(len(y)): the least-squares slope
\* of the integers ys against 0, 1, ..., len(ys) - 1 (len(ys) >= 2)
PolyfitSlope(ys) ==
    LET n == Len(ys)
        sx == SumSeq([i \in 1..n |-> i - 1])
        sxx == SumSeq([i \in 1..n |-> (i - 1) * (i - 1)])
        sy == SumSeq(ys)
        sxy == SumSeq([i \in 1..n |-> (i - 1) * ys[i]])
    IN  Ratio(n * sxy - sx * sy, n * sxx - sx * sx)

\* series.tail(k)
TailOf(q, k) ==
    IF k <= 0 THEN <<>>
    ELSE IF Len(q) <= k THEN q
    ELSE SubSeq(q, Len(q) - k + 1, Len(q))

\* series.dropna()
DropNa(q) ==
    LET Present(r) == NotNA(r.value)
    IN  SelectSeq(q, Present)

\* The least-squares slope of the integers ys against the integers xs (at
\* least 2 distinct xs)
LeastSquares(xs, ys) ==
    LET n == Len(ys)
        sx == SumSeq(xs)
        sxx == SumSeq([i \in 1..n |-> xs[i] * xs[i]])
        sy == SumSeq(ys)
        sxy == SumSeq([i \in 1..n |-> xs[i] * ys[i]])
    IN  Ratio(n * sxy - sx * sy, n * sxx - sx * sx)

\* A variant of _slope: the line is fitted against the calendar years.
_slope_calendar(q, years) ==
    LET kept == DropNa(q)
        t == TailOf(kept, years)
    IN  IF Len(kept) < 2 THEN NaN
        ELSE IF Len(t) < 2 THEN NaN
        ELSE LeastSquares([i \in 1..Len(t) |-> t[i].year],
                          [i \in 1..Len(t) |-> Get(t[i].value)])

\* A variant of _slope: a lone observation has slope 0.
_slope_flat(q, years) ==
    LET kept == DropNa(q)
        t == TailOf(kept, years)
    IN  IF Len(kept) < 1 THEN NaN
        ELSE IF Len(t) < 2 THEN Zero
        ELSE PolyfitSlope([i \in 1..Len(t) |-> Get(t[i].value)])

\* DeRiskingAgent._slope(series, years) (and the _slope of
\* LongevityInsightsAgent.analyze_sponsor): missing values are dropped, the
\* series is put in year order, fewer than 2 values give NaN, else the slope
\* of the last `years` values against their position.
_slope(q, years) ==
    LET kept == DropNa(q)
        t == TailOf(kept, years)
    IN  IF Len(kept) < 2 THEN NaN
        ELSE IF Len(t) < 2 THEN NaN
        ELSE PolyfitSlope([i \in 1..Len(t) |-> Get(t[i].value)])

\* five_year_rate(subdf, col) of build_sponsor_rollup, on the rows of one
\* TRACKING_ID in year order
five_year_rate(subdf, col) ==
    IF Len(subdf) < 2 THEN NaN
    ELSE LET first == subdf[1][col]
             last == subdf[Len(subdf)][col]
         IN  IF IsNA(first) \/ IsNA(last) \/ Get(first) = 0 THEN NaN
             ELSE Ratio(Get(last) - Get(first), Abs(Get(first)))

InitSlope ==
    /\ PipeIdle
    /\ IdentIdle
    /\ MergeIdle
    /\ RulesIdle
    /\ AgentIdle
    /\ IngestIdle /\ NormIdle /\ RatioIdle /\ StageIdle /\ RebuildIdle
    /\ series \in SeriesFrom(FirstYear, FirstYear + SlopeYears - 1)
    /\ slopeOut = NotCalled

\* self._slope(sdf[col], 3) and self._slope(sdf[col], 5)
CallSlope ==
    /\ slopeOut.slopes = <<>>
    /\ slopeOut' = [slopeOut EXCEPT
                       !.slopes = [three |-> _slope(series, 3),
                                   five |-> _slope(series, 5)]]
    /\ UNCHANGED series
    /\ UNCHANGED notSlopeVars

\* five_year_rate(subdf, col); a group of groupby has at least one row
CallFiveYearRate ==
    /\ slopeOut.rate = <<>>
    /\ series # <<>>
    /\ slopeOut' = [slopeOut EXCEPT
                       !.rate = [value |-> five_year_rate(series, "value")]]
    /\ UNCHANGED series
    /\ UNCHANGED notSlopeVars

NextSlope == CallSlope \/ CallFiveYearRate

SpecSlope == InitSlope /\ [][NextSlope]_vars

\* The values of the series that are not missing.
Available == {i \in 1..Len(series) : NotNA(series[i].value)}

Trailing(k) == TailOf(DropNa(series), k)

\* The slope of the last k available values against their position 0, 1, ...
IndexSlope(k) ==
    LET t == Trailing(k)
    IN  IF Len(t) < 2 THEN NaN
        ELSE LeastSquares([i \in 1..Len(t) |-> i - 1],
                          [i \in 1..Len(t) |-> Get(t[i].value)])

\* C11: the 3-year and the 5-year slope are the least-squares slopes of the
\* last 3 and the last 5 available values, in year order, against their
\* 0-based position and not against their calendar years.
C11_SlopeOverIndex ==
    slopeOut.slopes # <<>> =>
        /\ slopeOut.slopes.three = IndexSlope(3)
        /\ slopeOut.slopes.five = IndexSlope(5)

\* C11 witness: a series with data for 2019, 2021 and 2023 only, whose 3-year
\* slope has been computed and is not 0.
C11_Witness ==
    /\ {series[i].year : i \in 1..Len(series)}
           = {FirstYear, FirstYear + 2, FirstYear + 4}
    /\ Cardinality(Available) = 3
    /\ slopeOut.slopes # <<>>
    /\ NotNA(slopeOut.slopes.three)
    /\ slopeOut.slopes.three # Zero

-----------------------------------------------------------------------------
(* The de-risking rules of derisking_agent.py (SpecRules) *)

\* Years a sponsor's frame spans at most.
RuleYears == 3

\* The thresholds of the rules, in percent.
SharpDeclinePct == 15
RetireeShareRisePct == 5
AssetShiftPct == 10
TransferDropPct == 10
\* (new_entrants < 5).all()
LowEntrants == 5

\* The decimal literals 0.15, 0.05, 0.10 and their negatives
Pct(p) == DQuotient(p, 100)
MinusPct(p) == DNeg(DQuotient(p, 100))

\* Rows of the frames the rules are applied to.  detect_freezing reads
\* active, retired and total: either the active count varies, or the
\* retired count and the total do.
FreezingRows ==
    [active : {NA, Val(100), Val(85), Val(80)}, retired : {Val(10)},
     total : {Val(100)}]
        \cup [active : {Val(100)}, retired : {NA, Val(10), Val(20)},
              total : {NA, Val(0), Val(100)}]
AssetRows == [fixed_income_pct : {NA, Val(0), Val(20), Val(23), Val(31)}]
TransferRows ==
    [retired : {NA, Val(20), Val(10)}, liability_retired : {NA, Val(100), Val(80)}]
RetiredRows == [retired : {Val(20), Val(10)}]

\* row with the field year
WithYear(row, y) ==
    [c \in DOMAIN row \cup {"year"} |-> IF c = "year" THEN y ELSE row[c]]

\* The tables over the years y..last in year order: every year has no row or
\* one of rows.
RECURSIVE YearlyTables(_, _, _)
YearlyTables(rows, y, last) ==
    IF y > last THEN {<<>>}
    ELSE LET rest == YearlyTables(rows, y + 1, last)
         IN  rest \cup {<<WithYear(r, y)>> \o t : r \in rows, t \in rest}

YearlyFrames(columns, rows) ==
    {[columns |-> columns \cup {"year"}, rows |-> t] :
        t \in YearlyTables(rows, FirstYear, FirstYear + RuleYears - 1)}

RuleFrames ==
    YearlyFrames({"active", "retired", "total"}, FreezingRows)
        \cup YearlyFrames({"fixed_income_pct"}, AssetRows)
        \cup YearlyFrames({"retired", "liability_retired"}, TransferRows)
        \cup YearlyFrames({"retired"}, RetiredRows)


\* sponsor_df.set_index('year')[col].sort_index(): the column as a series in
\* year order
ColumnSeries(df, col) ==
    [i \in 1..Len(df.rows) |->
        [year |-> df.rows[i].year, value |-> DFromInt(df.rows[i][col])]]

\* One step of Series.pct_change(): cur / prev - 1
PctChange(prev, cur) == DSub(DDiv(cur, prev), DOne)

\* year_over_year_change(series): the missing values are dropped, then the
\* relative change from each remaining value to the next, 0 at the first
\* value and wherever the change is NaN
year_over_year_change(q) ==
    LET kept == DropNa(q)
    IN  [i \in 1..Len(kept) |->
            [year |-> kept[i].year,
             value |-> DFillNa0(IF i = 1 THEN NaN
                               ELSE PctChange(kept[i - 1].value, kept[i].value))]]

\* detect_freezing(sponsor_df)
detect_freezing(df) ==
    IF ~({"year", "active", "total", "retired"} \subseteq df.columns)
    THEN [fn |-> "detect_freezing", status |-> "KeyError"]
    ELSE
    LET active_chg == year_over_year_change(ColumnSeries(df, "active"))
        total == ColumnSeries(df, "total")
        retired == ColumnSeries(df, "retired")
        retiree_ratio ==
            [i \in 1..Len(total) |-> DFillNa0(DDiv(retired[i].value, total[i].value))]
        ratio_diff ==
            [i \in 1..Len(total) |->
                DFillNa0(IF i = 1 THEN NaN
                        ELSE DSub(retiree_ratio[i], retiree_ratio[i - 1]))]
    IN  [fn |-> "detect_freezing", status |-> "ok",
         sharp_decline |->
            \E i \in 1..Len(active_chg) :
                DLess(active_chg[i].value, MinusPct(SharpDeclinePct)),
         retiree_ratio_increasing |->
            \E i \in 1..Len(ratio_diff) :
                DGreater(ratio_diff[i], Pct(RetireeShareRisePct)),
         entrants_low |->
            IF "new_entrants" \in df.columns
            THEN \A i \in 1..Len(df.rows) :
                    /\ NotNA(df.rows[i].new_entrants)
                    /\ Get(df.rows[i].new_entrants) < LowEntrants
            ELSE FALSE]

\* detect_asset_shift(sponsor_df)
detect_asset_shift(df) ==
    IF "fixed_income_pct" \in df.columns
    THEN LET fi_chg == year_over_year_change(ColumnSeries(df, "fixed_income_pct"))
         IN  [fn |-> "detect_asset_shift", status |-> "ok",
              shift |-> \E i \in 1..Len(fi_chg) :
                            DGreater(fi_chg[i].value, Pct(AssetShiftPct))]
    ELSE [fn |-> "detect_asset_shift", status |-> "ok", shift |-> FALSE]

\* liability_chg.get(y, 0)
ChangeAt(chg, y) ==
    IF \E i \in 1..Len(chg) : chg[i].year = y
    THEN chg[CHOOSE i \in 1..Len(chg) : chg[i].year = y].value
    ELSE DZero

\* detect_liability_transfer(sponsor_df)
detect_liability_transfer(df) ==
    IF ~({"year", "retired"} \subseteq df.columns)
    THEN [fn |-> "detect_liability_transfer", status |-> "KeyError"]
    ELSE
    LET retired_chg == year_over_year_change(ColumnSeries(df, "retired"))
        liability_retired ==
            IF "liability_retired" \in df.columns
            THEN ColumnSeries(df, "liability_retired") ELSE <<>>
        liability_chg ==
            IF liability_retired # <<>>
            THEN year_over_year_change(liability_retired) ELSE <<>>
    IN  [fn |-> "detect_liability_transfer", status |-> "ok",
         transfer |->
            /\ retired_chg # <<>>
            /\ liability_chg # <<>>
            /\ \E i \in 1..Len(retired_chg) :
                  /\ DLess(retired_chg[i].value, MinusPct(TransferDropPct))
                  /\ DLess(ChangeAt(liability_chg, retired_chg[i].year),
                           MinusPct(TransferDropPct))]

InitRules ==
    /\ PipeIdle
    /\ IdentIdle
    /\ MergeIdle
    /\ SlopeIdle
    /\ AgentIdle
    /\ IngestIdle /\ NormIdle /\ RatioIdle /\ StageIdle /\ RebuildIdle
    /\ sponsor_df \in RuleFrames
    /\ rulesOut = <<>>

DetectFreezing ==
    /\ rulesOut = <<>>
    /\ rulesOut' = detect_freezing(sponsor_df)
    /\ UNCHANGED sponsor_df
    /\ UNCHANGED notRulesVars

DetectAssetShift ==
    /\ rulesOut = <<>>
    /\ rulesOut' = detect_asset_shift(sponsor_df)
    /\ UNCHANGED sponsor_df
    /\ UNCHANGED notRulesVars

DetectLiabilityTransfer ==
    /\ rulesOut = <<>>
    /\ rulesOut' = detect_liability_transfer(sponsor_df)
    /\ UNCHANGED sponsor_df
    /\ UNCHANGED notRulesVars

NextRules == DetectFreezing \/ DetectAssetShift \/ DetectLiabilityTransfer

SpecRules == InitRules /\ [][NextRules]_vars


\* The steps of the sponsor's frame from a year to the next year: row i - 1
\* is the row of the year before the year of row i.
YearSteps ==
    {i \in 2..Len(sponsor_df.rows) :
        sponsor_df.rows[i].year = sponsor_df.rows[i - 1].year + 1}

\* Step i has a defined relative change of col: both values are reported and
\* the earlier one is not 0.
ChangeDefined(i, col) ==
    /\ NotNA(sponsor_df.rows[i][col])
    /\ NotNA(sponsor_df.rows[i - 1][col])
    /\ Get(sponsor_df.rows[i - 1][col]) > 0

\* Some step has a defined relative change of col below -pct percent.
DefinedDrop(col, pct) ==
    \E i \in YearSteps :
        /\ ChangeDefined(i, col)
        /\ (Get(sponsor_df.rows[i][col]) - Get(sponsor_df.rows[i - 1][col])) * 100
              < (0 - pct) * Get(sponsor_df.rows[i - 1][col])

\* Some step has a defined relative change of col above pct percent.
DefinedRise(col, pct) ==
    \E i \in YearSteps :
        /\ ChangeDefined(i, col)
        /\ (Get(sponsor_df.rows[i][col]) - Get(sponsor_df.rows[i - 1][col])) * 100
              > pct * Get(sponsor_df.rows[i - 1][col])

\* Some step from a year to the next raises col by more than points, both
\* values being reported: an absolute difference of the allocation.
RiseInPoints(col, points) ==
    /\ col \in sponsor_df.columns
    /\ \E i \in YearSteps :
        /\ NotNA(sponsor_df.rows[i][col])
        /\ NotNA(sponsor_df.rows[i - 1][col])
        /\ Get(sponsor_df.rows[i][col]) - Get(sponsor_df.rows[i - 1][col]) > points

RiseAboveTenPointsIsReported ==
    (/\ rulesOut # <<>> /\ rulesOut.fn = "detect_asset_shift"
     /\ "fixed_income_pct" \in sponsor_df.columns
     /\ \A i \in 1..Len(sponsor_df.rows) :
           /\ NotNA(sponsor_df.rows[i].fixed_income_pct)
           /\ Get(sponsor_df.rows[i].fixed_income_pct) > 0
     /\ RiseInPoints("fixed_income_pct", AssetShiftPct))
        => rulesOut.shift

\* The retiree share retired / total of row i is defined.
ShareDefined(i) ==
    /\ NotNA(sponsor_df.rows[i].retired)
    /\ NotNA(sponsor_df.rows[i].total)
    /\ Get(sponsor_df.rows[i].total) > 0

\* Some step has a defined retiree share at both ends, rising by more than
\* pct points.
DefinedShareRise(pct) ==
    \E i \in YearSteps :
        /\ ShareDefined(i)
        /\ ShareDefined(i - 1)
        /\ (Get(sponsor_df.rows[i].retired) * Get(sponsor_df.rows[i - 1].total)
              - Get(sponsor_df.rows[i - 1].retired) * Get(sponsor_df.rows[i].total))
             * 100
              > pct * Get(sponsor_df.rows[i].total)
                    * Get(sponsor_df.rows[i - 1].total)

\* Some step has defined drops of the retired count and of the retiree
\* liability, both below -pct percent.
DefinedTransfer(pct) ==
    \E i \in YearSteps :
        /\ ChangeDefined(i, "retired")
        /\ ChangeDefined(i, "liability_retired")
        /\ (Get(sponsor_df.rows[i].retired) - Get(sponsor_df.rows[i - 1].retired)) * 100
              < (0 - pct) * Get(sponsor_df.rows[i - 1].retired)
        /\ (Get(sponsor_df.rows[i].liability_retired)
              - Get(sponsor_df.rows[i - 1].liability_retired)) * 100
              < (0 - pct) * Get(sponsor_df.rows[i - 1].liability_retired)

Evaluated(fn) ==
    rulesOut # <<>> /\ rulesOut.fn = fn /\ rulesOut.status = "ok"

\* C12: detect_freezing reports a sharp decline exactly when some step from a
\* year to the next year, with the active count reported in both, loses
\* strictly more than 15% of the active count.
C12_SharpDeclineIffBigDrop ==
    Evaluated("detect_freezing") =>
        (rulesOut.sharp_decline <=> DefinedDrop("active", SharpDeclinePct))

\* C7: a rule triggers only on a delta that is defined.  A step whose delta
\* or ratio is undefined (a value missing, the row of the year before
\* missing, a denominator that is 0 or missing) counts as not triggering, so
\* a rule that is true has a step with a defined delta beyond its threshold.
C7_UndefinedNeverTriggers ==
    /\ Evaluated("detect_freezing") =>
          /\ rulesOut.sharp_decline => DefinedDrop("active", SharpDeclinePct)
          /\ rulesOut.retiree_ratio_increasing =>
                DefinedShareRise(RetireeShareRisePct)
    /\ Evaluated("detect_asset_shift") =>
          (rulesOut.shift =>
              /\ "fixed_income_pct" \in sponsor_df.columns
              /\ DefinedRise("fixed_income_pct", AssetShiftPct))
    /\ Evaluated("detect_liability_transfer") =>
          (rulesOut.transfer =>
              /\ "liability_retired" \in sponsor_df.columns
              /\ DefinedTransfer(TransferDropPct))

-----------------------------------------------------------------------------
(* The three analyzers (SpecAgents) *)

\* Rows the analyzers' table holds at most.
MaxAgentRows == 3

\* The sponsor-years the table may hold, in the order of the table; the
\* industry is a property of the sponsor.
AgentCells ==
    <<[ein |-> "E1", plan_year |-> FirstYear, industry |-> "Education"],
      [ein |-> "E1", plan_year |-> FirstYear + 1, industry |-> "Education"],
      [ein |-> "E2", plan_year |-> FirstYear, industry |-> "Education"],
      [ein |-> "E2", plan_year |-> FirstYear + 1, industry |-> "Education"],
      [ein |-> "E3", plan_year |-> FirstYear, industry |-> "Other"],
      [ein |-> "E3", plan_year |-> FirstYear + 1, industry |-> "Other"]>>

\* The metrics of a row: the active count, the annuitant ratio, the share of
\* fixed income, the retired count, the retiree liability and the annuity
\* purchases (numbers; the rows drawn carry whole numbers).
AgentValues ==
    {[active |-> Val(100), annuitant_ratio |-> NA, asset_fixed_income_pct |-> NA,
      retired |-> Val(20), liability_retired |-> Val(100),
      annuity_purchases |-> Val(0)],
     [active |-> Val(100), annuitant_ratio |-> Val(1),
      asset_fixed_income_pct |-> Val(20),
      retired |-> Val(20), liability_retired |-> Val(100),
      annuity_purchases |-> Val(0)],
     [active |-> Val(80), annuitant_ratio |-> Val(1),
      asset_fixed_income_pct |-> Val(20),
      retired |-> Val(20), liability_retired |-> Val(100),
      annuity_purchases |-> NA],
     [active |-> Val(80), annuitant_ratio |-> Val(3),
      asset_fixed_income_pct |-> Val(31),
      retired |-> Val(20), liability_retired |-> Val(100),
      annuity_purchases |-> Val(0)],
     [active |-> Val(80), annuitant_ratio |-> Val(3),
      asset_fixed_income_pct |-> Val(31),
      retired |-> Val(10), liability_retired |-> Val(80),
      annuity_purchases |-> Val(5)]}

AgentRow(cell, v) ==
    [c \in DOMAIN cell \cup DOMAIN v |->
        IF c \in DOMAIN cell THEN cell[c] ELSE v[c]]

\* The tables over the cells i.. with at most room rows: one row per
\* sponsor-year at most.
RECURSIVE AgentTables(_, _)
AgentTables(i, room) ==
    IF i > Len(AgentCells) \/ room = 0 THEN {<<>>}
    ELSE AgentTables(i + 1, room)
            \cup {<<AgentRow(AgentCells[i], v)>> \o t :
                     v \in AgentValues, t \in AgentTables(i + 1, room - 1)}

\* The EINs the analyzers are asked about: one that may be in the table and
\* one that never is.
AskedEINs == {"E1", "E9"}

\* df[df[ein_col] == str(sponsor_ein)]
RowsOfSponsor(df, ein) ==
    LET Mine(r) == r.ein = ein
    IN  SelectSeq(df, Mine)

\* sdf[year_col].nunique()
DistinctYears(sdf) == Cardinality({sdf[i].plan_year : i \in 1..Len(sdf)})

\* sdf.sort_values(year_col): rows of equal year keep their order
RECURSIVE SortByYear(_)
SortByYear(sdf) ==
    IF sdf = <<>> THEN <<>>
    ELSE LET m == CHOOSE i \in 1..Len(sdf) :
                     /\ \A j \in 1..Len(sdf) : sdf[i].plan_year <= sdf[j].plan_year
                     /\ \A j \in 1..(i - 1) : sdf[j].plan_year # sdf[i].plan_year
             Rest(j) == IF j < m THEN sdf[j] ELSE sdf[j + 1]
         IN  <<sdf[m]>> \o SortByYear([j \in 1..(Len(sdf) - 1) |-> Rest(j)])

\* A column of sdf as the series _slope is given
MetricSeries(sdf, col) ==
    [i \in 1..Len(sdf) |-> [year |-> sdf[i].plan_year, value |-> sdf[i][col]]]


\* The columns of the analyzers' table.
AgentColumns ==
    {"ein", "plan_year", "industry", "active", "annuitant_ratio",
     "asset_fixed_income_pct", "retired", "liability_retired",
     "annuity_purchases"}

\* A variant of BoolInt: a rule that triggered weighs 2.
BoolIntWeighted(b) == IF b THEN 2 ELSE 0

\* True counts 1 in sum([...])
BoolInt(b) == IF b THEN 1 ELSE 0

\* sdf[col].min() == 0: the smallest value that is not missing is 0
MinIsZero(sdf, col) ==
    /\ \E i \in 1..Len(sdf) : sdf[i][col] = Val(0)
    /\ \A i \in 1..Len(sdf) : NotNA(sdf[i][col]) => Get(sdf[i][col]) >= 0

\* sdf[col].diff().min() < 0: some row has a smaller value than the row
\* before it, both reported
SomeStepDown(sdf, col) ==
    \E i \in 2..Len(sdf) :
        /\ NotNA(sdf[i][col])
        /\ NotNA(sdf[i - 1][col])
        /\ Get(sdf[i][col]) < Get(sdf[i - 1][col])

\* sdf[col].max() > 0
MaxIsPositive(sdf, col) ==
    \E i \in 1..Len(sdf) : NotNA(sdf[i][col]) /\ Get(sdf[i][col]) > 0

\* DeRiskingAgent.analyze_sponsor(sponsor_ein)
DeRiskingAnalyze(df, ein) ==
    LET sdf == SortByYear(RowsOfSponsor(df, ein))
        Has(col) == col \in AgentColumns
        \* slopes[...] where the column exists, slopes.get(..., 0) otherwise
        Slope(col, years) ==
            IF Has(col) THEN _slope(MetricSeries(sdf, col), years) ELSE Zero
        active3 == Slope("active", 3)
        active5 == Slope("active", 5)
        annuitant5 == Slope("annuitant_ratio", 5)
        fixed5 == Slope("asset_fixed_income_pct", 5)
        prt_likelihood ==
            /\ Has("retired") /\ Has("liability_retired") /\ Has("annuity_purchases")
            /\ SomeStepDown(sdf, "retired")
            /\ SomeStepDown(sdf, "liability_retired")
            /\ MaxIsPositive(sdf, "annuity_purchases")
        score == BoolInt(FLess(active5, Zero)) + BoolInt(FGreater(annuitant5, Zero))
                    + BoolInt(FGreater(fixed5, Zero)) + BoolInt(prt_likelihood)
    IN  IF sdf = <<>> THEN [error |-> "Sponsor not found"]
        ELSE IF DistinctYears(sdf) < 2
        THEN [error |-> "Insufficient years for trend analysis"]
        ELSE [five_year_slopes |->
                 [active_3yr_slope |-> active3, active_5yr_slope |-> active5,
                  annuitant_ratio_5yr_trend |-> annuitant5,
                  fixed_income_shift_5yr |-> fixed5],
              prt_likelihood |-> prt_likelihood,
              sponsor_is_freezing |->
                 FLess(active5, Num(0 - 10, 1)) \/ MinIsZero(sdf, "active"),
              sponsor_is_derisking |-> score >= 2,
              composite_derisking_score |-> score]

\* max over the rows' years
LatestYear(rows) ==
    CHOOSE y \in {rows[i].plan_year : i \in 1..Len(rows)} :
        \A i \in 1..Len(rows) : rows[i].plan_year <= y

\* The column col of rows as a sequence of numbers
ColumnOf(rows, col) == [i \in 1..Len(rows) |-> FromInt(rows[i][col])]

\* LongevityInsightsAgent.analyze_sponsor(sponsor_ein)
LongevityAnalyze(df, ein) ==
    LET sdf == SortByYear(RowsOfSponsor(df, ein))
        ann_path == DropNa(MetricSeries(sdf, "annuitant_ratio"))
        industry == sdf[1].industry
        InPeers(r) == r.industry = industry /\ r.plan_year = LatestYear(sdf)
        peer_df == SelectSeq(df, InPeers)
        peer_mean == Mean(ColumnOf(peer_df, "annuitant_ratio"))
    IN  IF sdf = <<>> THEN [error |-> "Sponsor not found"]
        ELSE [mortality_trend |-> <<>>,
              persistent_substitute_mortality |-> FALSE,
              longevity_risk_trend |-> _slope(ann_path, 5),
              multi_year_annuitant_ratio_path |->
                 [i \in 1..Len(ann_path) |-> ann_path[i].value],
              peer_annuitant_ratio_latest |->
                 IF peer_df # <<>> THEN peer_mean ELSE NaN,
              high_longevity_risk |->
                 /\ ann_path # <<>>
                 /\ peer_df # <<>>
                 /\ FGreater(FromInt(ann_path[Len(ann_path)].value), peer_mean)]

\* A number known by its sign and its square: sgn * sqrt(n/d).  The z-score
\* divides by a standard deviation, the square root of a variance.
SignedRoot(sgn, sq) == Val(<<sgn, Get(sq)[1], Get(sq)[2]>>)

\* compute_z_score(val, peer_series): 0 when the standard deviation is 0 or
\* NaN, else (val - mu) / sigma
compute_z_score(val, peer_series) ==
    LET mu == Mean(peer_series)
        variance == Variance(peer_series)
        diff == FSub(val, mu)
    IN  IF variance = Zero \/ IsNA(variance) THEN SignedRoot(0, Zero)
        ELSE IF IsNA(diff) THEN NaN
        ELSE SignedRoot(Sgn(Get(diff)[1]), FDiv(FMul(diff, diff), variance))

\* compute_percentile(val, peer_series): (peer_series < val).mean(), the
\* share of the entries below val; a comparison with NaN counts as False
compute_percentile(val, peer_series) ==
    LET Below(x) == FLess(x, val)
    IN  IF peer_series = <<>> THEN NaN
        ELSE Ratio(Len(SelectSeq(peer_series, Below)), Len(peer_series))

\* df[ein_col].value_counts().max() > 1: some EIN has more than one row
SomeEinRepeats(df) ==
    \E i \in 1..Len(df) : \E j \in 1..Len(df) : i # j /\ df[i].ein = df[j].ein

\* _get_latest_year(df): for every EIN its row of the greatest year
\* (groupby(ein)[year].idxmax(): the first such row, EINs in sorted order;
\* the order of the result is not used)
_get_latest_year(df) ==
    LET IsLatest(i) ==
            /\ \A j \in 1..Len(df) :
                  df[j].ein = df[i].ein => df[j].plan_year <= df[i].plan_year
            /\ \A j \in 1..(i - 1) :
                  df[j].ein = df[i].ein => df[j].plan_year # df[i].plan_year
        RECURSIVE Pick(_)
        Pick(i) == IF i > Len(df) THEN <<>>
                   ELSE (IF IsLatest(i) THEN <<df[i]>> ELSE <<>>) \o Pick(i + 1)
    IN  Pick(1)

\* The EINs of rows in the order of their first row
RECURSIVE EinsOf(_)
EinsOf(rows) ==
    IF rows = <<>> THEN <<>>
    ELSE LET Others(r) == r.ein # rows[1].ein
         IN  <<rows[1].ein>> \o EinsOf(SelectSeq(rows, Others))

\* peer_multi.groupby(ein_col)[metric].mean(): one mean per EIN
GroupMeans(rows, metric) ==
    LET eins == EinsOf(rows)
    IN  [k \in 1..Len(eins) |->
            Mean(ColumnOf(RowsOfSponsor(rows, eins[k]), metric))]

\* An exception that leaves the analyzer
Unhandled(exception) == [raised |-> exception]

\* PeerBenchmarkAgent.benchmark_sponsor(sponsor_ein): the industry, the size
\* of the peer group and the comparison flags of the annuitant ratio.  The
\* table is taken to carry every other column the method reads.
benchmark_sponsor(df, ein) ==
    LET mine == RowsOfSponsor(df, ein)
        \* multi-year branch
        latest == _get_latest_year(df)
        sponsor_latest == RowsOfSponsor(latest, ein)
        industry == sponsor_latest[1].industry
        SameIndustry(r) == r.industry = industry
        peer_group == SelectSeq(latest, SameIndustry)
        peer_multi == SelectSeq(df, SameIndustry)
        \* _five_year_metrics: the mean over the last 5 rows of the sponsor
        sponsor_val ==
            Mean(ColumnOf(TailOf(SortByYear(mine), 5), "annuitant_ratio"))
        peer_vals == GroupMeans(peer_multi, "annuitant_ratio")
        \* single-year branch
        sponsor_row == mine[1]
        SameAsRow(r) == r.industry = sponsor_row.industry
        peers1 == SelectSeq(df, SameAsRow)
        val1 == FromInt(sponsor_row.annuitant_ratio)
        series1 == ColumnOf(peers1, "annuitant_ratio")
    IN  IF SomeEinRepeats(df)
        THEN IF sponsor_latest = <<>> THEN Unhandled("IndexError")
             ELSE [industry |-> industry,
                   count |-> Len(peer_group),
                   zscore |-> compute_z_score(sponsor_val, peer_vals),
                   percentile |-> compute_percentile(sponsor_val, peer_vals),
                   interpretation |-> "5-year trend vs peers computed."]
        ELSE IF mine = <<>> THEN Unhandled("IndexError")
             ELSE [industry |-> sponsor_row.industry,
                   count |-> Len(peers1),
                   zscore |-> compute_z_score(val1, series1),
                   percentile |-> compute_percentile(val1, series1),
                   interpretation |-> "peer average annuitant ratio"]

\* d.get(key, default) of a dict d
DictGet(d, key, default) == IF key \in DOMAIN d THEN d[key] ELSE default

\* {}
EmptyDict == <<>>

\* summarize_derisking(derisking_output)
summarize_derisking(derisking_output) ==
    [is_freezing |-> DictGet(derisking_output, "is_freezing", FALSE),
     is_derisking |-> DictGet(derisking_output, "is_derisking", FALSE),
     active_decline |-> DictGet(derisking_output, "evidence_active_decline", FALSE),
     asset_shift |-> DictGet(derisking_output, "evidence_asset_shift", FALSE),
     annuity_purchase |->
        DictGet(derisking_output, "evidence_annuity_purchase", FALSE),
     prt_readiness_score |-> DictGet(derisking_output, "prt_readiness_score", 0)]

\* ReportGenerationAgent.generate_report: the two sections of the report that
\* are built from derisking_output.  The other sections are built from the
\* other two outputs and from master_row, the texts from the summaries.
generate_report(derisking_output) ==
    [derisking_summary |-> summarize_derisking(derisking_output),
     multi_year_derisking_summary |->
        DictGet(derisking_output, "five_year_slopes", EmptyDict)]

\* The analyzers are constructed on a table and asked about one sponsor.
InitAgents ==
    /\ PipeIdle /\ IdentIdle /\ MergeIdle /\ RulesIdle /\ SlopeIdle
    /\ IngestIdle /\ NormIdle /\ RatioIdle /\ StageIdle /\ RebuildIdle
    /\ master_df \in AgentTables(1, MaxAgentRows)
    /\ sponsor_ein \in AskedEINs
    /\ agentOut = NotAsked

AskDeRisking ==
    /\ agentOut.derisking = <<>>
    /\ agentOut' = [agentOut EXCEPT
                       !.derisking = Val(DeRiskingAnalyze(master_df, sponsor_ein))]
    /\ UNCHANGED <<master_df, sponsor_ein>>
    /\ UNCHANGED notAgentVars

AskLongevity ==
    /\ agentOut.longevity = <<>>
    /\ agentOut' = [agentOut EXCEPT
                       !.longevity = Val(LongevityAnalyze(master_df, sponsor_ein))]
    /\ UNCHANGED <<master_df, sponsor_ein>>
    /\ UNCHANGED notAgentVars

AskPeerBenchmark ==
    /\ agentOut.peer = <<>>
    /\ agentOut' = [agentOut EXCEPT
                       !.peer = Val(benchmark_sponsor(master_df, sponsor_ein))]
    /\ UNCHANGED <<master_df, sponsor_ein>>
    /\ UNCHANGED notAgentVars

\* report_agent.generate_report(peer_output, derisk_output, longevity_output,
\* test_row), once analyze_sponsor returned derisk_output
GenerateReport ==
    /\ agentOut.derisking # <<>>
    /\ agentOut.report = <<>>
    /\ agentOut' = [agentOut EXCEPT
                       !.report = Val(generate_report(Get(agentOut.derisking)))]
    /\ UNCHANGED <<master_df, sponsor_ein>>
    /\ UNCHANGED notAgentVars

NextAgents == AskDeRisking \/ AskLongevity \/ AskPeerBenchmark \/ GenerateReport

SpecAgents == InitAgents /\ [][NextAgents]_vars

\* The sponsor asked about has no row / has rows of fewer than 2 years
SponsorAbsent == RowsOfSponsor(master_df, sponsor_ein) = <<>>
ShortHistory ==
    /\ ~SponsorAbsent
    /\ DistinctYears(RowsOfSponsor(master_df, sponsor_ein)) < 2

IsError(out, message) == DOMAIN out = {"error"} /\ out.error = message

\* What an analyzer owes for the sponsor asked about
ExplicitOutcome(out) ==
    /\ SponsorAbsent => IsError(out, "Sponsor not found")
    /\ ShortHistory => /\ DOMAIN out = {"error"}
                       /\ out.error # "Sponsor not found"

\* C8: each analyzer answers an absent sponsor with an explicit "not found"
\* result and a sponsor of fewer than 2 years with an explicit "insufficient
\* history" result that differs from it, never with an analysis record or an
\* exception.
C8_ExplicitNotFoundAndShortHistory ==
    /\ NotNA(agentOut.derisking) => ExplicitOutcome(Get(agentOut.derisking))
    /\ NotNA(agentOut.longevity) => ExplicitOutcome(Get(agentOut.longevity))
    /\ NotNA(agentOut.peer) => ExplicitOutcome(Get(agentOut.peer))

\* The peer cohort of the sponsor: the rows of other sponsors of the same
\* industry and of the sponsor's latest year
OtherPeers ==
    LET mine == RowsOfSponsor(master_df, sponsor_ein)
        Peer(r) == /\ r.ein # sponsor_ein
                   /\ r.industry = mine[1].industry
                   /\ r.plan_year = LatestYear(mine)
    IN  SelectSeq(master_df, Peer)

\* C9: when the cohort has no member besides the sponsor, the z-score and the
\* percentile that benchmark_sponsor reports are undefined.
C9_NoPeersUndefined ==
    (/\ NotNA(agentOut.peer)
     /\ ~SponsorAbsent
     /\ OtherPeers = <<>>)
        => /\ "zscore" \in DOMAIN Get(agentOut.peer)
           /\ IsNA(Get(agentOut.peer).zscore)
           /\ IsNA(Get(agentOut.peer).percentile)

\* The analysis record of DeRiskingAgent.analyze_sponsor, once returned
Analysed ==
    /\ NotNA(agentOut.derisking)
    /\ "composite_derisking_score" \in DOMAIN Get(agentOut.derisking)

\* The rules of the composite score that the record reports as triggered: a
\* falling active count, a rising annuitant ratio, a rising share of fixed
\* income, a likely risk transfer.
TriggeredRules ==
    LET out == Get(agentOut.derisking)
        slopes == out.five_year_slopes
    IN  {r \in {"active", "annuitant", "fixed_income", "prt"} :
            \/ r = "active" /\ FLess(slopes.active_5yr_slope, Zero)
            \/ r = "annuitant" /\ FGreater(slopes.annuitant_ratio_5yr_trend, Zero)
            \/ r = "fixed_income" /\ FGreater(slopes.fixed_income_shift_5yr, Zero)
            \/ r = "prt" /\ out.prt_likelihood}

\* C13: the composite score is the number of triggered rules, so it lies in
\* 0..4, and sponsor_is_derisking is true exactly when the score is at
\* least 2.
C13_ScoreCountsRules ==
    Analysed =>
        LET out == Get(agentOut.derisking)
        IN  /\ out.composite_derisking_score \in 0..4
            /\ out.composite_derisking_score = Cardinality(TriggeredRules)
            /\ out.sponsor_is_derisking <=> out.composite_derisking_score >= 2

\* C13 witness: a sponsor for which all four rules triggered.
C13_Witness ==
    /\ Analysed
    /\ Cardinality(TriggeredRules) = 4
    /\ Get(agentOut.derisking).sponsor_is_derisking

\* The report of generate_report, once returned
ReportReturned == NotNA(agentOut.report)

\* The summary of a report shows an analysis that found nothing: no error
\* entry, every flag false, score 0
ShowsNothingFound(summary) ==
    /\ "error" \notin DOMAIN summary
    /\ ~summary.is_freezing /\ ~summary.is_derisking
    /\ ~summary.active_decline /\ ~summary.asset_shift
    /\ ~summary.annuity_purchase
    /\ summary.prt_readiness_score = 0

\* C29: the report reflects the result of analyze_sponsor: a sponsor flagged
\* as de-risking or as freezing has is_derisking / is_freezing true in the
\* report's derisking_summary, and an error result is not reported as an
\* analysis with all flags false.
C29_ReportReflectsAnalysis ==
    ReportReturned =>
        LET out == Get(agentOut.derisking)
            summary == Get(agentOut.report).derisking_summary
        IN  /\ (Analysed /\ out.sponsor_is_derisking) => summary.is_derisking
            /\ (Analysed /\ out.sponsor_is_freezing) => summary.is_freezing
            /\ "error" \in DOMAIN out => ~ShowsNothingFound(summary)

\* The summary of every report shows nothing found, whatever the analysis is
SummaryShowsNothingFound ==
    ReportReturned => ShowsNothingFound(Get(agentOut.report).derisking_summary)

\* The slopes of the analysis reach the report
ReportCarriesSlopes ==
    (ReportReturned /\ Analysed) =>
        Get(agentOut.report).multi_year_derisking_summary
            = Get(agentOut.derisking).five_year_slopes

-----------------------------------------------------------------------------
(* One run of a multi-year ingestion engine (SpecIngest) *)

\* combine_years, load_multi_year_data and the year loop that
\* multi_year_ingestion.py runs at module level
Engines == {"combine_years", "load_multi_year_data", "module_loop"}

\* The run loops over IngestYears years from FirstYear on.
IngestYears == 2
IngestLastYear == FirstYear + IngestYears - 1

\* Input rows (the three files of every year together) one run reads.
MaxIngestRows == 3

\* A Schedule SB cell for the EIN: a number, or nothing
IngestEINs == {<<"9">>, <<>>}

ColumnsOf(rows) == UNION {DOMAIN r : r \in rows}

\* A year's source file: absent, or a table whose rows all have the columns
\* of the file.
Absent == [exists |-> FALSE, decodes |-> {}, columns |-> {}, rows |-> <<>>]

\* encodings=("utf-8", "latin1", "cp1252")
encodings == <<"utf-8", "latin1", "cp1252">>
EncodingSet == {encodings[k] : k \in 1..Len(encodings)}

\* A file that exists has a table, and the set of the encodings under which
\* pd.read_csv reads it.
FilesOf(rows, n) ==
    {[exists |-> TRUE, decodes |-> EncodingSet, columns |-> ColumnsOf(rows),
      rows |-> t] : t \in TablesOf(rows, n)}

\* Two files of one row: one that utf-8 does not read, one that no encoding
\* reads.
PoorFiles(rows, n) ==
    IF n < 1 THEN {}
    ELSE {[exists |-> TRUE, decodes |-> d, columns |-> ColumnsOf(rows),
           rows |-> <<CHOOSE r \in rows : TRUE>>] :
            d \in {{"latin1", "cp1252"}, {}}}

\* load_5500_csv, lines 67-78: "for enc in encodings" from the k-th encoding
\* on; the loop is left at the first encoding that reads the file, and
\* without one the else branch is taken.
RECURSIVE FirstEncoding(_, _)
FirstEncoding(file, k) ==
    IF k > Len(encodings) THEN NA
    ELSE IF encodings[k] \in file.decodes THEN Val(encodings[k])
    ELSE FirstEncoding(file, k + 1)

\* load_5500_csv(filepath) of a file that exists: its table, and
\* pd.DataFrame() when every encoding has failed.  (The clean-up of lines
\* 80-170 is not modelled: the tables are given as it leaves them.)
load_5500_csv(file) ==
    IF file.exists /\ IsNA(FirstEncoding(file, 1))
    THEN [file EXCEPT !.columns = {}, !.rows = <<>>]
    ELSE file

\* The three frames of a year as the loaders return them
LoadAll(files) ==
    [sb |-> load_5500_csv(files.sb), f5500 |-> load_5500_csv(files.f5500),
     sr |-> load_5500_csv(files.sr)]

\* Schedule SB rows as the loader hands them over: two plans of one sponsor
\* and a row without EIN.
IngestSBRows ==
    {r \in [EIN : IngestEINs, PLAN_NUMBER : PipePlanNumbers, ACTIVE_COUNT : {Val(1)}] :
        r.EIN = <<>> => r.PLAN_NUMBER = Str1}

\* Schedule SB files: with a PLAN_NUMBER column, or without one.
SBFiles(n) ==
    {Absent}
        \cup FilesOf(IngestSBRows, n)
        \cup PoorFiles({r \in IngestSBRows : r.EIN # <<>>}, n)
        \cup FilesOf([EIN : PipeEINs, ACTIVE_COUNT : {Val(1)}], n)

\* Form 5500 files: with the key columns, or without the EIN column.
F5500Files(n) ==
    {Absent}
        \cup FilesOf(F5500Rows, n)
        \cup PoorFiles(F5500Rows, n)
        \cup FilesOf([PLAN_NUMBER : {Str1},
                      SPONSOR_DFE_NAME : {Val(name) : name \in SponsorNames}], n)

SRFiles(n) ==
    {Absent} \cup FilesOf({r \in SRRows : r.PLAN_NUMBER = Str1}, n)
             \cup PoorFiles({r \in SRRows : r.PLAN_NUMBER = Str1}, n)

\* str(pd.NA)
PdNAStr == <<"<", "N", "A", ">">>

\* normalize_sb_fields, lines 100-103: the plan number of a row, pd.NA for
\* every row of a table without PLAN_NUMBER column.  No row is dropped.
SbPlanNumber(file, r) ==
    IF "PLAN_NUMBER" \in file.columns
    THEN Val(NormPlanNumber(r.PLAN_NUMBER))
    ELSE NA

\* normalize_sb(df_sb, plan_year=year), then lines 126-129 of combine_years
\* (lines 31-34 of load_multi_year_data): astype(str) of EIN and of
\* PLAN_NUMBER, strip, zfill(3), PLAN_YEAR and SB_KEY.
IngestSB(file, y) ==
    LET Each(r) ==
            LET ein == NormEIN(AsStr(NormSbEIN(r.EIN)))
                pn == LET n == SbPlanNumber(file, r)
                      IN  NormPlanNumber(IF IsNA(n) THEN PdNAStr ELSE Get(n))
            IN  [EIN |-> ein, PLAN_NUMBER |-> pn, PLAN_YEAR |-> y,
                 ACTIVE_COUNT |-> r.ACTIVE_COUNT, SB_KEY |-> SbKey(ein, pn, y)]
    IN  MapSeq(Each, file.rows)

\* df['EIN'] (or df['PLAN_NUMBER']) of a loaded table with rows that has no
\* such column raises KeyError.
LacksKey(file) ==
    /\ file.exists
    /\ file.rows # <<>>
    /\ ~({"EIN", "PLAN_NUMBER"} \subseteq file.columns)

\* The merged table of a year whose Schedule SB has rows: Schedule SB as the
\* base, Form 5500 and then Schedule R left-merged onto it, TRACKING_ID added.
IngestMerge(files, y) ==
    LET sb == IngestSB(files.sb, y)
        with5500 ==
            LeftMerge(sb, PrepareSupplemental(files.f5500, sb, y, "SPONSOR_DFE_NAME"),
                      "SPONSOR_DFE_NAME")
        withSR ==
            LeftMerge(with5500,
                      PrepareSupplemental(files.sr, sb, y, "ASSET_FIXED_INCOME_PCT"),
                      "ASSET_FIXED_INCOME_PCT")
        Track(r) == [f \in DOMAIN r \cup {"TRACKING_ID"} |->
                        IF f = "TRACKING_ID" THEN TrackingId(r.EIN, r.PLAN_NUMBER)
                        ELSE r[f]]
    IN  MapSeq(Track, withSR)

\* What one pass of the loop body of combine_years (lines 115-166) and of
\* load_multi_year_data (lines 21-80) comes to.
YearOutcome(files, y) ==
    LET loaded == LoadAll(files)
    IN  IF ~loaded.sb.exists \/ loaded.sb.rows = <<>>
        THEN [kind |-> "skipped", merged |-> <<>>]
        ELSE IF LacksKey(loaded.f5500) \/ LacksKey(loaded.sr)
        THEN [kind |-> "KeyError", merged |-> <<>>]
        ELSE [kind |-> "merged", merged |-> IngestMerge(loaded, y)]

\* The files one pass reads: Schedule SB first; the two other files are read
\* only when Schedule SB has rows, Schedule R only when Form 5500 went through.
YearFiles(budget) ==
    {[sb |-> s, f5500 |-> f, sr |-> r] :
        s \in {x \in SBFiles(budget) : load_5500_csv(x).rows = <<>>},
        f \in {Absent}, r \in {Absent}}
    \cup UNION {UNION {
            {[sb |-> s, f5500 |-> f, sr |-> r] :
                r \in IF LacksKey(load_5500_csv(f)) THEN {Absent}
                      ELSE SRFiles(budget - Len(s.rows) - Len(f.rows))} :
            f \in F5500Files(budget - Len(s.rows))} :
         s \in {x \in SBFiles(budget) : load_5500_csv(x).rows # <<>>}}

RowsRead(files) == Len(files.sb.rows) + Len(files.f5500.rows) + Len(files.sr.rows)

Warning(y, message) == [year |-> y, message |-> message]

InitIngest ==
    /\ PipeIdle /\ IdentIdle /\ MergeIdle /\ RulesIdle /\ SlopeIdle
    /\ AgentIdle /\ NormIdle /\ RatioIdle /\ StageIdle /\ RebuildIdle
    /\ engine \in Engines
    /\ loop_year = FirstYear
    /\ year_files = <<>>
    /\ all_years = <<>>
    /\ run_log = <<>>
    /\ run_state = "running"
    /\ rows_budget = MaxIngestRows

\* combine_years, one pass of "for year in years": an exception leaves the
\* function, and the list of results with it.
CombineYearsPass ==
    /\ engine = "combine_years"
    /\ run_state = "running"
    /\ loop_year <= IngestLastYear
    /\ \E files \in YearFiles(rows_budget) :
          LET o == YearOutcome(files, loop_year)
          IN  /\ year_files' = Val(files)
              /\ rows_budget' = rows_budget - RowsRead(files)
              /\ CASE o.kind = "skipped" ->
                        /\ run_log' = Append(run_log,
                               Warning(loop_year, "No Schedule SB data; skipping year"))
                        /\ UNCHANGED <<all_years, run_state>>
                        /\ loop_year' = loop_year + 1
                   [] o.kind = "merged" ->
                        /\ all_years' = Append(all_years,
                               [year |-> loop_year, merged |-> o.merged])
                        /\ UNCHANGED <<run_log, run_state>>
                        /\ loop_year' = loop_year + 1
                   [] OTHER ->
                        /\ run_state' = o.kind
                        /\ UNCHANGED <<all_years, run_log, loop_year>>
    /\ UNCHANGED engine
    /\ UNCHANGED notIngestVars

\* load_multi_year_data, one pass of "for year in range(2019, 2025)": the
\* body is inside try, and "except Exception" logs a warning and continues.
LoadMultiYearPass ==
    /\ engine = "load_multi_year_data"
    /\ run_state = "running"
    /\ loop_year <= IngestLastYear
    /\ \E files \in YearFiles(rows_budget) :
          LET o == YearOutcome(files, loop_year)
          IN  /\ year_files' = Val(files)
              /\ rows_budget' = rows_budget - RowsRead(files)
              /\ CASE o.kind = "skipped" ->
                        /\ run_log' = Append(run_log,
                               Warning(loop_year, "No Schedule SB data; skipping year"))
                        /\ UNCHANGED all_years
                   [] o.kind = "merged" ->
                        /\ all_years' = Append(all_years,
                               [year |-> loop_year, merged |-> o.merged])
                        /\ UNCHANGED run_log
                   [] OTHER ->
                        /\ run_log' = Append(run_log,
                               Warning(loop_year, "Error processing year"))
                        /\ UNCHANGED all_years
    /\ loop_year' = loop_year + 1
    /\ UNCHANGED <<engine, run_state>>
    /\ UNCHANGED notIngestVars

\* The frame normalize_sb_fields(sb_df) hands to merge_sb_5500 in the module
\* loop: no plan_year is given and the files have no plan year column, so
\* PLAN_YEAR is missing; merge_sb_5500 takes EIN through astype(str).
ModuleSbFrame(file) ==
    LET Each(r) ==
            LET n == SbPlanNumber(file, r)
            IN  [EIN |-> AsStr(NormSbEIN(r.EIN)),
                 PLAN_NUMBER |-> IF IsNA(n) THEN PdNAStr ELSE Get(n),
                 PLAN_YEAR |-> NA, ACTIVE_COUNT |-> r.ACTIVE_COUNT]
    IN  [columns |-> {"EIN", "PLAN_NUMBER", "PLAN_YEAR", "ACTIVE_COUNT"},
         rows |-> MapSeq(Each, file.rows)]

\* pd.merge(merged, r_df, on=['EIN', 'PLAN_NUMBER'], how='left',
\* suffixes=('', '_R')) of the module loop, done when r_df has rows and both
\* tables have the two columns.
ModuleMergeR(cols, rows, r) ==
    LET name == IF "ASSET_FIXED_INCOME_PCT" \in cols
                THEN "ASSET_FIXED_INCOME_PCT_R" ELSE "ASSET_FIXED_INCOME_PCT"
        Each(l) ==
            LET SameKey(x) == x.EIN = l.EIN /\ x.PLAN_NUMBER = l.PLAN_NUMBER
                hits == SelectSeq(r.rows, SameKey)
                With(x) == [f \in DOMAIN l \cup {name} |->
                               IF f = name THEN x.ASSET_FIXED_INCOME_PCT ELSE l[f]]
                Without == [f \in DOMAIN l \cup {name} |->
                               IF f = name THEN NA ELSE l[f]]
            IN  IF hits = <<>> THEN <<Without>> ELSE MapSeq(With, hits)
    IN  IF r.rows # <<>> /\ {"EIN", "PLAN_NUMBER"} \subseteq cols
                         /\ {"EIN", "PLAN_NUMBER"} \subseteq r.columns
        THEN FlatMap(Each, rows)
        ELSE rows

\* The body of the module loop once Form 5500 is found (lines 116-136):
\* with Schedule SB rows, merge_sb_5500(sb_df, f5500_df); without, the
\* Form 5500 table itself; then Schedule R and PLAN_YEAR.
ModuleOutcome(files, y) ==
    LET loaded == LoadAll(files)
        f5500 == [columns |-> loaded.f5500.columns, rows |-> loaded.f5500.rows]
        hasSB == loaded.sb.exists /\ loaded.sb.rows # <<>>
        m == IF hasSB
             THEN merge_sb_5500(ModuleSbFrame(loaded.sb), f5500, EmptyFrame)
             ELSE [status |-> "ok", columns |-> f5500.columns, rows |-> f5500.rows]
        SetYear(r) == [f \in DOMAIN r \cup {"PLAN_YEAR"} |->
                          IF f = "PLAN_YEAR" THEN y ELSE r[f]]
    IN  IF m.status # "ok" THEN [kind |-> m.status, merged |-> <<>>]
        ELSE [kind |-> "merged",
              merged |-> MapSeq(SetYear, ModuleMergeR(m.columns, m.rows, loaded.sr))]

\* The files one pass of the module loop reads: nothing but the listing of
\* the directory when Form 5500 is not there.
ModuleFiles(budget) ==
    {[sb |-> Absent, f5500 |-> Absent, sr |-> Absent]}
    \cup UNION {UNION {
            {[sb |-> s, f5500 |-> f, sr |-> r] :
                r \in SRFiles(budget - Len(f.rows) - Len(s.rows))} :
            s \in SBFiles(budget - Len(f.rows))} :
         f \in F5500Files(budget) \ {Absent}}

\* multi_year_ingestion.py, one pass of "for year in YEARS" (lines 110-144).
\* The sponsor rollup of lines 138-144 is inside try and leaves master_dfs
\* as it is.
ModuleLoopPass ==
    /\ engine = "module_loop"
    /\ run_state = "running"
    /\ loop_year <= IngestLastYear
    /\ \E files \in ModuleFiles(rows_budget) :
          /\ year_files' = Val(files)
          /\ rows_budget' = rows_budget - RowsRead(files)
          /\ IF ~files.f5500.exists
             THEN /\ run_log' = Append(run_log,
                         Warning(loop_year, "Missing Form 5500, skipping year"))
                  /\ UNCHANGED <<all_years, run_state>>
                  /\ loop_year' = loop_year + 1
             ELSE LET o == ModuleOutcome(files, loop_year)
                  IN  IF o.kind = "merged"
                      THEN /\ all_years' = Append(all_years,
                                  [year |-> loop_year, merged |-> o.merged])
                           /\ UNCHANGED <<run_log, run_state>>
                           /\ loop_year' = loop_year + 1
                      ELSE /\ run_state' = o.kind
                           /\ UNCHANGED <<all_years, run_log, loop_year>>
    /\ UNCHANGED engine
    /\ UNCHANGED notIngestVars

\* The loop is over: return results, or the concatenation of all_years, or
\* the writing of the all-years table.
ReturnRun ==
    /\ run_state = "running"
    /\ loop_year > IngestLastYear
    /\ run_state' = "returned"
    /\ UNCHANGED <<engine, loop_year, year_files, all_years, run_log, rows_budget>>
    /\ UNCHANGED notIngestVars

NextIngest == CombineYearsPass \/ LoadMultiYearPass \/ ModuleLoopPass \/ ReturnRun

SpecIngest == InitIngest /\ [][NextIngest]_vars

\* The year of the pass made last, and its files
PassYear == IF run_state \in {"running", "returned"} THEN loop_year - 1 ELSE loop_year
PassFiles == Get(year_files)
PassMade == NotNA(year_files) /\ PassYear >= FirstYear

\* The merged tables the run holds for year y
MergedOf(y) ==
    LET Of(e) == e.year = y
    IN  SelectSeq(all_years, Of)

\* The (EIN, PLAN_NUMBER, PLAN_YEAR) keys of a table
KeysOf(t) == {<<t[i].EIN, t[i].PLAN_NUMBER, t[i].PLAN_YEAR>> : i \in 1..Len(t)}

\* The two engines whose loop body is the one of combine_years
SbBased == engine \in {"combine_years", "load_multi_year_data"}

\* C14: for a year that combine_years or load_multi_year_data has merged, the
\* keys (EIN, PLAN_NUMBER, PLAN_YEAR) of the merged table are the keys of the
\* normalized Schedule SB table of that year, no more and no fewer.
C14_MergedKeysAreSbKeys ==
    (SbBased /\ PassMade /\ MergedOf(PassYear) # <<>>)
        => KeysOf(MergedOf(PassYear)[1].merged)
               = KeysOf(IngestSB(PassFiles.sb, PassYear))

\* C14 witness: a merged year whose Schedule SB has two plans and whose
\* Form 5500 has a row for one of them only.
C14_Witness ==
    /\ SbBased /\ PassMade /\ MergedOf(PassYear) # <<>>
    /\ Cardinality(KeysOf(IngestSB(PassFiles.sb, PassYear))) = 2
    /\ Len(PassFiles.f5500.rows) = 1
    /\ \E i \in 1..Len(MergedOf(PassYear)[1].merged) :
          IsNA(MergedOf(PassYear)[1].merged[i].SPONSOR_DFE_NAME)
    /\ \E i \in 1..Len(MergedOf(PassYear)[1].merged) :
          NotNA(MergedOf(PassYear)[1].merged[i].SPONSOR_DFE_NAME)

\* Schedule SB of the pass made last is missing or has no row
SbMissingOrEmpty == ~PassFiles.sb.exists \/ PassFiles.sb.rows = <<>>

\* C15: when Schedule SB is missing or empty for a year, the run holds no
\* merged table for that year and goes on with the next year.
C15_YearWithoutSbSkipped ==
    (PassMade /\ SbMissingOrEmpty)
        => /\ MergedOf(PassYear) = <<>>
           /\ run_state \in {"running", "returned"}
           /\ loop_year = PassYear + 1

\* An identifier built from a missing value: the EIN "nan", the plan number
\* "<NA>" of a table without plan number column
Placeholder(row) == row.EIN = NanStr \/ row.PLAN_NUMBER = PdNAStr

\* C16: no row that normalize_sb_fields and combine_years put out carries a
\* missing or placeholder EIN or plan number; no TRACKING_ID is built from one.
C16_NoRowWithoutIdentity ==
    (engine = "combine_years" /\ PassMade /\ MergedOf(PassYear) # <<>>)
        => \A i \in 1..Len(MergedOf(PassYear)[1].merged) :
              ~Placeholder(MergedOf(PassYear)[1].merged[i])

\* The processing of the year of the pass made last has failed: a table
\* with rows that lacks a key column was loaded.
PassFailed ==
    /\ PassMade
    /\ ~SbMissingOrEmpty
    /\ LacksKey(PassFiles.f5500) \/ LacksKey(PassFiles.sr)

\* The run has logged a warning about year y that reports an error
ErrorReported(y) ==
    \E i \in 1..Len(run_log) :
        run_log[i] = Warning(y, "Error processing year")

\* C20: in a run of combine_years or of load_multi_year_data, a year whose
\* processing fails is skipped and reported, and the run goes on with the
\* next year.
C20_FailedYearSkippedAndReported ==
    (SbBased /\ PassFailed)
        => /\ run_state \in {"running", "returned"}
           /\ loop_year = PassYear + 1
           /\ MergedOf(PassYear) = <<>>
           /\ ErrorReported(PassYear)

\* The same of load_multi_year_data alone
LoadMultiYearSkipsFailedYear ==
    (engine = "load_multi_year_data" /\ PassFailed)
        => /\ run_state \in {"running", "returned"}
           /\ loop_year = PassYear + 1
           /\ MergedOf(PassYear) = <<>>
           /\ ErrorReported(PassYear)

\* A file of the pass made last exists and no encoding reads it
Unreadable(file) == file.exists /\ file.decodes = {}
SomeFileUnreadable ==
    \/ Unreadable(PassFiles.sb)
    \/ Unreadable(PassFiles.f5500)
    \/ Unreadable(PassFiles.sr)

\* C21: the loader takes the first of utf-8, latin1, cp1252 that reads the
\* file; and a year of combine_years one of whose files no encoding reads is
\* skipped: the run holds no merged table for it and goes on.
C21_UnreadableFileSkipsYear ==
    (engine = "combine_years" /\ PassMade) =>
        /\ \A f \in {PassFiles.sb, PassFiles.f5500, PassFiles.sr} :
              \A k \in 1..Len(encodings) :
                 FirstEncoding(f, 1) = Val(encodings[k])
                    <=> /\ encodings[k] \in f.decodes
                        /\ \A j \in 1..(k - 1) : encodings[j] \notin f.decodes
        /\ SomeFileUnreadable =>
              /\ MergedOf(PassYear) = <<>>
              /\ run_state \in {"running", "returned"}
              /\ loop_year = PassYear + 1

\* The part of C21 about the order of the encodings, and the skipping of a
\* year whose Schedule SB no encoding reads
UnreadableSbSkipsYear ==
    (engine = "combine_years" /\ PassMade) =>
        /\ \A f \in {PassFiles.sb, PassFiles.f5500, PassFiles.sr} :
              \A k \in 1..Len(encodings) :
                 FirstEncoding(f, 1) = Val(encodings[k])
                    <=> /\ encodings[k] \in f.decodes
                        /\ \A j \in 1..(k - 1) : encodings[j] \notin f.decodes
        /\ Unreadable(PassFiles.sb) =>
              /\ MergedOf(PassYear) = <<>>
              /\ run_state \in {"running", "returned"}
              /\ loop_year = PassYear + 1

-----------------------------------------------------------------------------
(* normalize_sb_fields: the numeric columns (SpecNorm) *)

\* Rows the raw Schedule SB table holds at most.
MaxSbRows == 2

\* A raw cell is missing (NaN) or a string.
Cell(chars) == Val(chars)
EmptyCell == Cell(<<>>)
MarkerCell == Cell(<<"n", "/", "a">>)
JunkCell == Cell(<<"x">>)
ZeroCell == Cell(<<"0">>)

\* str.upper() on the letters of the cells
Upper(c) ==
    CASE c = "a" -> "A" [] c = "e" -> "E" [] c = "n" -> "N"
      [] c = "o" -> "O" [] c = "x" -> "X" [] OTHER -> c
UpperStr(str) == [i \in 1..Len(str) |-> Upper(str[i])]

\* parse_int, line 18: the strings taken as missing
IntMarkers ==
    {<<>>, <<"N", "A">>, <<"N", "/", "A">>, <<"N", "O", "N", "E">>}

\* str.replace(',', '')
RECURSIVE RemoveCommas(_)
RemoveCommas(str) ==
    IF str = <<>> THEN <<>>
    ELSE IF Head(str) = "," THEN RemoveCommas(Tail(str))
    ELSE <<Head(str)>> \o RemoveCommas(Tail(str))

DigitChars == <<"0", "1", "2", "3", "4", "5", "6", "7", "8", "9">>
DigitValue(c) == (CHOOSE i \in 1..10 : DigitChars[i] = c) - 1

\* The number a string of digits writes
RECURSIVE DigitsValue(_, _)
DigitsValue(str, acc) ==
    IF str = <<>> THEN acc
    ELSE DigitsValue(Tail(str), 10 * acc + DigitValue(Head(str)))

\* int(text): an optional sign and digits; anything else raises ValueError,
\* here the missing value.
IntOf(text) ==
    LET signed == text # <<>> /\ Head(text) \in {"+", "-"}
        digits == IF signed THEN Tail(text) ELSE text
    IN  IF digits = <<>> \/ \E i \in 1..Len(digits) : digits[i] \notin Digits
        THEN NA
        ELSE IF signed /\ Head(text) = "-" THEN Val(0 - DigitsValue(digits, 0))
        ELSE Val(DigitsValue(digits, 0))

\* parse_int(val)
parse_int(cell) ==
    IF IsNA(cell) THEN NA
    ELSE IF UpperStr(Strip(Get(cell))) \in IntMarkers THEN NA
    ELSE IntOf(Strip(RemoveCommas(Get(cell))))

\* parse_float(val).  The cells of the model hold no decimal point and no
\* exponent: float(text) is the number int(text) writes, or ValueError.
parse_float(cell) ==
    IF IsNA(cell) THEN NA
    ELSE IF UpperStr(Strip(Get(cell))) \in IntMarkers THEN NA
    ELSE IntOf(Strip(RemoveCommas(Get(cell))))

\* Series.fillna(0)
FillZero(v) == IF IsNA(v) THEN Val(0) ELSE v

\* DataFrame.sum(axis=1, min_count=1) of one row: the sum of the values
\* present, missing when none is.
RowSum(values) ==
    LET present == SelectSeq(values, NotNA)
        Plain(v) == Get(v)
    IN  IF present = <<>> THEN NA ELSE Val(SumSeq(MapSeq(Plain, present)))

\* The source columns of the numeric fields (FIELD_MAP, first names)
RawName ==
    [ACTIVE_COUNT |-> "SB_ACT_PARTCP_CNT", RETIREE_COUNT |-> "SB_RTD_PARTCP_CNT",
     SEPARATED_COUNT |-> "SB_TERM_PARTCP_CNT",
     TOTAL_PARTICIPANTS |-> "SB_TOT_PARTCP_CNT",
     TOTAL_LIABILITY |-> "SB_TOT_FNDNG_TGT_AMT"]

\* get_col(names, dtype) at one row: the parsed cell of the column, None for
\* every row when the table has no such column
GetCol(df, r, field, Parse(_)) ==
    IF RawName[field] \in df.columns THEN Parse(r[RawName[field]]) ELSE NA

\* normalize_sb_fields, lines 115-136: the participant counts and a liability.
\* SEPARATED_COUNT is filled with 0; TOTAL_PARTICIPANTS is the parsed column
\* unless every row of it is missing, and then the row sums.
normalize_sb_fields(df) ==
    LET Counts(r) ==
            [ACTIVE_COUNT |-> GetCol(df, r, "ACTIVE_COUNT", parse_int),
             RETIREE_COUNT |-> GetCol(df, r, "RETIREE_COUNT", parse_int),
             SEPARATED_COUNT |->
                 FillZero(GetCol(df, r, "SEPARATED_COUNT", parse_int)),
             TOTAL_LIABILITY |-> GetCol(df, r, "TOTAL_LIABILITY", parse_float)]
        TotalPart(r) == GetCol(df, r, "TOTAL_PARTICIPANTS", parse_int)
        allNull == \A i \in 1..Len(df.rows) : IsNA(TotalPart(df.rows[i]))
        Each(r) ==
            LET c == Counts(r)
            IN  [f \in DOMAIN c \cup {"TOTAL_PARTICIPANTS"} |->
                    IF f # "TOTAL_PARTICIPANTS" THEN c[f]
                    ELSE IF allNull
                    THEN RowSum(<<c.ACTIVE_COUNT, c.RETIREE_COUNT, c.SEPARATED_COUNT>>)
                    ELSE TotalPart(r)]
    IN  MapSeq(Each, df.rows)

\* Raw tables: the active count, the retired count and the liability are
\* columns of every table; the separated count and the total are columns of
\* some tables only.
RawSbRows(hasSep, hasTotal) ==
    LET base == [SB_ACT_PARTCP_CNT : {Cell(<<"2">>), JunkCell},
                 SB_RTD_PARTCP_CNT : {Cell(<<"1">>), NA},
                 SB_TOT_FNDNG_TGT_AMT : {Cell(<<"7">>), EmptyCell}]
        seps == IF hasSep
                THEN {NA, EmptyCell, MarkerCell, ZeroCell, Cell(<<"3">>)}
                ELSE {NA}
        totals == IF hasTotal THEN {NA, ZeroCell, Cell(<<"1", ",", "0">>)} ELSE {NA}
        Row(b, sep, tot) ==
            [c \in DOMAIN b \cup (IF hasSep THEN {"SB_TERM_PARTCP_CNT"} ELSE {})
                            \cup (IF hasTotal THEN {"SB_TOT_PARTCP_CNT"} ELSE {}) |->
                CASE c = "SB_TERM_PARTCP_CNT" -> sep
                  [] c = "SB_TOT_PARTCP_CNT" -> tot
                  [] OTHER -> b[c]]
    IN  {Row(b, sep, tot) : b \in base, sep \in seps, tot \in totals}

RawSbFrames(n) ==
    UNION {{[columns |-> ColumnsOf(RawSbRows(hasSep, hasTotal)), rows |-> t] :
                t \in TablesOf(RawSbRows(hasSep, hasTotal), n) \ {<<>>}} :
           hasSep \in BOOLEAN, hasTotal \in BOOLEAN}

InitNorm ==
    /\ PipeIdle /\ IdentIdle /\ MergeIdle /\ RulesIdle /\ SlopeIdle
    /\ AgentIdle /\ IngestIdle /\ RatioIdle /\ StageIdle /\ RebuildIdle
    /\ sb_raw \in RawSbFrames(MaxSbRows)
    /\ sb_out = <<>>

\* out = normalize_sb_fields(df)
CallNormalize ==
    /\ sb_out = <<>>
    /\ sb_out' = Val(normalize_sb_fields(sb_raw))
    /\ UNCHANGED sb_raw
    /\ UNCHANGED notNormVars

NextNorm == CallNormalize

SpecNorm == InitNorm /\ [][NextNorm]_vars

Normalized == NotNA(sb_out)
OutRow(i) == Get(sb_out)[i]

\* The raw cell of a field at row i: missing when the table has no such column
RawCell(i, field) ==
    IF RawName[field] \in sb_raw.columns THEN sb_raw.rows[i][RawName[field]] ELSE NA

\* The raw cells that hold no number: missing, empty, a marker, unparsable
NoNumber == {NA, EmptyCell, MarkerCell, JunkCell}

\* The fields that are the coercion of one raw column
CoercedFields == {"ACTIVE_COUNT", "RETIREE_COUNT", "SEPARATED_COUNT", "TOTAL_LIABILITY"}

\* C17: for every field that is the coercion of a raw column, a raw cell that
\* holds no number gives the missing value, and the output is 0 only when the
\* raw cell writes 0.  (TOTAL_PARTICIPANTS, which has a fallback, is the
\* subject of C18.)
C17_AbsenceIsNotZero ==
    Normalized =>
        \A i \in 1..Len(sb_raw.rows) : \A f \in CoercedFields :
            /\ RawCell(i, f) \in NoNumber => IsNA(OutRow(i)[f])
            /\ OutRow(i)[f] = Val(0) => RawCell(i, f) = ZeroCell

\* The coercion of the fields other than SEPARATED_COUNT
OtherFieldsKeepAbsence ==
    Normalized =>
        \A i \in 1..Len(sb_raw.rows) : \A f \in CoercedFields \ {"SEPARATED_COUNT"} :
            /\ RawCell(i, f) \in NoNumber => IsNA(OutRow(i)[f])
            /\ OutRow(i)[f] = Val(0) => RawCell(i, f) = ZeroCell

\* Row i reports a total of its own
TotalReported(i) == RawCell(i, "TOTAL_PARTICIPANTS") \notin NoNumber

\* C18: the total of a row is the total the row reports, and for a row that
\* reports none the sum of the row's active, retired and separated counts,
\* whatever the other rows report.
C18_TotalFallsBackPerRow ==
    Normalized =>
        \A i \in 1..Len(sb_raw.rows) :
            OutRow(i).TOTAL_PARTICIPANTS =
                IF TotalReported(i)
                THEN parse_int(RawCell(i, "TOTAL_PARTICIPANTS"))
                ELSE RowSum(<<OutRow(i).ACTIVE_COUNT, OutRow(i).RETIREE_COUNT,
                              OutRow(i).SEPARATED_COUNT>>)

\* The fallback of a table in which no row reports a total
TotalFallsBackPerTable ==
    (Normalized /\ \A j \in 1..Len(sb_raw.rows) : ~TotalReported(j))
        => \A i \in 1..Len(sb_raw.rows) :
              OutRow(i).TOTAL_PARTICIPANTS =
                  RowSum(<<OutRow(i).ACTIVE_COUNT, OutRow(i).RETIREE_COUNT,
                           OutRow(i).SEPARATED_COUNT>>)

-----------------------------------------------------------------------------
(* The annuitant ratio of build_master_dataset and build_sponsor_rollup
   (SpecRatio) *)

\* Plan rows of the year the two tables are built from.
MaxPlanRows == 2

PlanIds == {"9-001", "9-002"}

\* The plan rows of one year: counts that may be missing
PlanRows ==
    [TRACKING_ID : PlanIds,
     RETIREE_COUNT : {NA, Val(0), Val(3)},
     SEPARATED_COUNT : {NA, Val(1)},
     TOTAL_PARTICIPANTS : {NA, Val(0), Val(4)}]

\* A variant of ReplaceZero: a zero is kept.
ReplaceZeroKept(v) == v

\* Series.replace({0: np.nan})
ReplaceZero(v) == IF NotNA(v) /\ Get(v) = 0 THEN NA ELSE v

\* a + b on two columns: missing when either value is
Plus(a, b) == IF IsNA(a) \/ IsNA(b) THEN NA ELSE Val(Get(a) + Get(b))

\* build_master_dataset, lines 71-72: the ANNUTIANT_RATIO of a row
MasterRatio(r) ==
    FDiv(FromInt(Plus(r.RETIREE_COUNT, r.SEPARATED_COUNT)),
         FromInt(ReplaceZero(r.TOTAL_PARTICIPANTS)))

\* agg('sum') of a column over a group: the missing values are skipped, and
\* the sum of no value is 0.
GroupSum(rows, field) ==
    LET Reported(r) == NotNA(r[field])
        Plain(r) == Get(r[field])
    IN  Val(SumSeq(MapSeq(Plain, SelectSeq(rows, Reported))))

\* build_sponsor_rollup, lines 66-91: the ANNUITANT_RATIO of the group of the
\* rows of one TRACKING_ID (and year)
RollupRatio(rows) ==
    LET annuitants == Plus(GroupSum(rows, "RETIREE_COUNT"),
                           GroupSum(rows, "SEPARATED_COUNT"))
    IN  FDiv(FromInt(annuitants),
             FromInt(ReplaceZero(GroupSum(rows, "TOTAL_PARTICIPANTS"))))

\* The rows of one TRACKING_ID
GroupOf(rows, id) ==
    LET Mine(r) == r.TRACKING_ID = id
    IN  SelectSeq(rows, Mine)

GroupIds(rows) == {rows[i].TRACKING_ID : i \in 1..Len(rows)}

InitRatio ==
    /\ PipeIdle /\ IdentIdle /\ MergeIdle /\ RulesIdle /\ SlopeIdle
    /\ AgentIdle /\ IngestIdle /\ NormIdle /\ StageIdle /\ RebuildIdle
    /\ plan_rows \in TablesOf(PlanRows, MaxPlanRows) \ {<<>>}
    /\ ratio_out = <<>>

\* build_master_dataset and build_sponsor_rollup on the rows of the year: the
\* ratio of every row, and the ratio of every group.
ComputeRatios ==
    /\ ratio_out = <<>>
    /\ ratio_out' =
          Val([master |-> [i \in 1..Len(plan_rows) |-> MasterRatio(plan_rows[i])],
               rollup |-> [id \in GroupIds(plan_rows) |->
                              RollupRatio(GroupOf(plan_rows, id))]])
    /\ UNCHANGED plan_rows
    /\ UNCHANGED notRatioVars

NextRatio == ComputeRatios

SpecRatio == InitRatio /\ [][NextRatio]_vars

\* The total of a row, and of a group, is zero or missing
NoTotal(r) == IsNA(r.TOTAL_PARTICIPANTS) \/ Get(r.TOTAL_PARTICIPANTS) = 0
NoGroupTotal(rows) == \A i \in 1..Len(rows) : NoTotal(rows[i])

\* C19: the annuitant ratio of a row of the master table, and of a group of
\* the sponsor rollup, is missing whenever the total is zero or missing, and
\* no ratio is infinite.
C19_RatioUndefinedWithoutTotal ==
    NotNA(ratio_out) =>
        /\ \A i \in 1..Len(plan_rows) :
              /\ NoTotal(plan_rows[i]) => IsNA(Get(ratio_out).master[i])
              /\ ~IsInf(Get(ratio_out).master[i])
        /\ \A id \in GroupIds(plan_rows) :
              /\ NoGroupTotal(GroupOf(plan_rows, id)) => IsNA(Get(ratio_out).rollup[id])
              /\ ~IsInf(Get(ratio_out).rollup[id])

\* C19 witness: a plan with annuitants and a total of zero, its ratio missing
\* in both tables, beside a plan whose ratio is a number.
C19_Witness ==
    /\ NotNA(ratio_out)
    /\ \E i \in 1..Len(plan_rows) :
          /\ plan_rows[i].TOTAL_PARTICIPANTS = Val(0)
          /\ plan_rows[i].RETIREE_COUNT = Val(3)
          /\ plan_rows[i].SEPARATED_COUNT = Val(1)
          /\ IsNA(Get(ratio_out).master[i])
          /\ IsNA(Get(ratio_out).rollup[plan_rows[i].TRACKING_ID])
    /\ \E i \in 1..Len(plan_rows) : Get(ratio_out).master[i] = Num(1, 1)

-----------------------------------------------------------------------------
(* One call of a table stage (SpecStages): normalize_sb_fields,
   normalize_sr_fields, merge_sb_sr, merge_schedule_h,
   add_prt_analysis_fields, build_sponsor_rollup and analyze_prt_history.  A table the caller passes is an object the stage
   may write to; the model keeps the caller's tables as they are after the
   call beside the table returned. *)

\* Rows per table of a stage call
MaxStageRows == 2

\* The first name of the list that is a column
RECURSIVE FirstPresent(_, _)
FirstPresent(names, columns) ==
    IF names = <<>> THEN NA
    ELSE IF Head(names) \in columns THEN Val(Head(names))
    ELSE FirstPresent(Tail(names), columns)

\* "for canon, alts in ...: for alt in alts: if canon not in df.columns and
\* alt in df.columns: df[canon] = df[alt]": a canonical column the frame lacks
\* becomes a copy of the first alternative the frame holds.  The assignment
\* writes to the frame df names.
CopyFirstPresent(df, names) ==
    LET added == {canon \in DOMAIN names :
                     /\ canon \notin df.columns
                     /\ NotNA(FirstPresent(names[canon], df.columns))}
        Each(r) ==
            [c \in df.columns \cup added |->
                IF c \in df.columns THEN r[c]
                ELSE r[Get(FirstPresent(names[c], df.columns))]]
    IN  [columns |-> df.columns \cup added, rows |-> MapSeq(Each, df.rows)]

\* FIELD_MAP of normalize_sb_fields, lines 55-73, for the identifiers and the
\* numeric fields of the model
FIELD_MAP ==
    [EIN |-> <<"SB_EIN", "SPONS_DFE_EIN", "SCH_R_EIN", "EIN">>,
     PLAN_YEAR |-> <<"SB_PLAN_YR", "PLAN_YEAR", "PLAN_YR", "SCH_R_PLAN_YR">>,
     ACK_ID |-> <<"ACK_ID", "SCH_R_ACK_ID">>,
     ACTIVE_COUNT |->
         <<"SB_ACT_PARTCP_CNT", "ACTIVE_COUNT", "ACT_PARTCP_CNT", "ACTIVES">>,
     RETIREE_COUNT |->
         <<"SB_RTD_PARTCP_CNT", "RETIREE_COUNT", "RTD_PARTCP_CNT", "RETIREE">>,
     SEPARATED_COUNT |-> <<"SB_TERM_PARTCP_CNT">>,
     TOTAL_PARTICIPANTS |->
         <<"SB_TOT_PARTCP_CNT", "TOTAL_PARTICIPANTS", "TOT_PARTCP_CNT", "TOTAL">>,
     TOTAL_LIABILITY |-> <<"SB_TOT_FNDNG_TGT_AMT", "TOTAL_LIABILITY">>]

\* df['EIN'].astype(str).str.strip() + '-'
\*   + df['PLAN_NUMBER'].astype(str).str.strip().str.zfill(3) + '-' + year
SynthAckId(r, yearText) ==
    Strip(AsStr(r.EIN)) \o Dash
        \o ZFill(Strip(AsStr(r.PLAN_NUMBER)), PlanNumberWidth) \o Dash \o yearText

\* The frame with a column ACK_ID made of EIN, PLAN_NUMBER and the year text,
\* when it has no such column and has the three others
WithAckId(df, YearText(_)) ==
    IF "ACK_ID" \notin df.columns
       /\ {"EIN", "PLAN_NUMBER", "PLAN_YEAR"} \subseteq df.columns
    THEN LET Each(r) ==
                 [c \in df.columns \cup {"ACK_ID"} |->
                     IF c = "ACK_ID" THEN Val(SynthAckId(r, YearText(r))) ELSE r[c]]
         IN  [columns |-> df.columns \cup {"ACK_ID"}, rows |-> MapSeq(Each, df.rows)]
    ELSE df

\* str(plan_year if plan_year is not None else '') of a call without plan_year
NoYearText(r) == <<>>

\* The caller's frame after normalize_sb_fields(df): lines 75-79 copy the
\* canonical columns into df, lines 112-113 add ACK_ID to df.
SbCallerFrame(df) == WithAckId(CopyFirstPresent(df, FIELD_MAP), NoYearText)

\* SR_HEADER_MAP of normalize_sr_fields, lines 9-34, for the columns of the
\* model.  The key written 'SCH_R_PLAN_NUM' follows a string literal (lines
\* 12-20) and is concatenated to it: no column has that name, and
\* SCH_R_PLAN_NUM is not renamed.
SR_HEADER_MAP ==
    [SCH_R_EIN |-> "EIN", SCH_R_PLAN_YR |-> "PLAN_YEAR", SCH_R_ACK_ID |-> "ACK_ID",
     ASSET_FIXED_INCOME |-> "ASSET_FIXED_INCOME_PCT"]

FALLBACK_SR_NAMES ==
    [EIN |-> <<"SCH_R_EIN", "SPONS_DFE_EIN", "SB_EIN", "EIN">>,
     PLAN_NUMBER |-> <<"SCH_R_PLAN_NUM", "PLAN_NUMBER", "SB_PLAN_NUM">>,
     PLAN_YEAR |-> <<"SCH_R_PLAN_YR", "PLAN_YEAR", "SB_PLAN_YR">>,
     ACK_ID |-> <<"SCH_R_ACK_ID", "ACK_ID">>]

PLAN_NUMBER_MAP == <<"SCH_R_PN", "PLAN_NUMBER", "PN">>

\* df.rename(columns=...): a new frame.  (No frame of the model holds both a
\* column and the name it is renamed to.)
Rename(df, names) ==
    LET New(c) == IF c \in DOMAIN names THEN names[c] ELSE c
        Old(n) == CHOOSE c \in df.columns : New(c) = n
        cols == {New(c) : c \in df.columns}
        Each(r) == [n \in cols |-> r[Old(n)]]
    IN  [columns |-> cols, rows |-> MapSeq(Each, df.rows)]

\* str(n) of a natural number
RECURSIVE NatStr(_)
NatStr(n) ==
    IF n < 10 THEN <<DigitChars[n + 1]>>
    ELSE NatStr(n \div 10) \o <<DigitChars[(n % 10) + 1]>>

\* df['PLAN_YEAR'].astype(str) of a year pd.to_numeric has read
YearText(r) == IF IsNA(r.PLAN_YEAR) THEN NanStr ELSE NatStr(Get(r.PLAN_YEAR))

\* normalize_sr_fields(df), lines 43-79.  Every assignment after line 48
\* writes to the frame rename has returned.  Without a plan number column the
\* result is pd.DataFrame(index=df.index): the rows of df, without a column.
normalize_sr_fields(df) ==
    LET named == CopyFirstPresent(Rename(df, SR_HEADER_MAP), FALLBACK_SR_NAMES)
        col == FirstPresent(PLAN_NUMBER_MAP, named.columns)
        Keys(r) ==
            [c \in named.columns \cup {"PLAN_NUMBER"} |->
                CASE c = "PLAN_NUMBER" ->
                        Val(ZFill(Strip(AsStr(r[Get(col)])), PlanNumberWidth))
                  [] c = "EIN" -> Val(Strip(AsStr(r.EIN)))
                  [] c = "PLAN_YEAR" -> parse_int(r.PLAN_YEAR)
                  [] OTHER -> r[c]]
        Bare(r) == [c \in {} |-> NA]
    IN  IF IsNA(col)
        THEN [columns |-> {}, rows |-> MapSeq(Bare, df.rows)]
        ELSE WithAckId([columns |-> named.columns \cup {"PLAN_NUMBER"},
                        rows |-> MapSeq(Keys, named.rows)], YearText)

\* db_plans['ACK_ID'].astype(str).str.strip(): the join key _ACK_ID
AckKey(r) == Strip(AsStr(r.ACK_ID))

\* A variant of DropDuplicateAcks: every row is kept.
KeepDuplicateAcks(rows) == rows

\* drop_duplicates(subset=['_ACK_ID'], keep='first'): a row is dropped when a
\* row before it has its key
DropDuplicateAcks(rows) ==
    LET Kept(i) == \A j \in 1..(i - 1) : AckKey(rows[j]) # AckKey(rows[i])
        RECURSIVE From(_)
        From(i) ==
            IF i > Len(rows) THEN <<>>
            ELSE IF Kept(i) THEN <<rows[i]>> \o From(i + 1)
            ELSE From(i + 1)
    IN  From(1)

\* Line 44: the Schedule H columns that are merged
NotHFields == {"ACK_ID", "EIN", "PLAN_NUMBER", "PLAN_YEAR", "YEAR", "_ACK_ID"}
sch_h_fields(sch_h) == sch_h.columns \ NotHFields

\* rename_map, line 51
HPrefixed(col) == "SCH_H_" \o col

\* What a call returns: a table and whether the table is a new object
Result(table, isNew) == [out |-> table, fresh |-> isNew]

\* merge_schedule_h(db_plans, sch_h), lines 32-74.  (db_plans of the model has
\* a column ACK_ID and no column named SCH_H_...; lines 67 and 69 read the
\* merged columns of TOTAL_ASSETS_EOY and PRT_AMOUNT.)
merge_schedule_h(db_plans, sch_h) ==
    LET fields == sch_h_fields(sch_h)
        subset == DropDuplicateAcks(sch_h.rows)
        cols == db_plans.columns \cup {HPrefixed(c) : c \in fields}
        Field(c) == CHOOSE f \in fields : HPrefixed(f) = c
        Joined(l, r, hit) ==
            [c \in cols |->
                IF c \in db_plans.columns THEN l[c]
                ELSE IF hit THEN r[Field(c)] ELSE NA]
        OneLeft(l) ==
            LET Hit(r) == AckKey(r) = AckKey(l)
                Pair(r) == Joined(l, r, TRUE)
                hits == SelectSeq(subset, Hit)
            IN  IF hits = <<>> THEN <<Joined(l, l, FALSE)>> ELSE MapSeq(Pair, hits)
    IN  IF sch_h.rows = <<>> \/ sch_h.columns = {} THEN Result(db_plans, FALSE)
        ELSE IF ~({"TOTAL_ASSETS_EOY", "PRT_AMOUNT"} \subseteq fields)
        THEN Result(Raised("KeyError"), TRUE)
        ELSE Result([columns |-> cols, rows |-> FlatMap(OneLeft, db_plans.rows)],
                      TRUE)

\* categorize_prt(amount), lines 88-98
categorize_prt(amount) ==
    IF IsNA(amount) \/ Get(amount) <= 0 THEN "No PRT"
    ELSE IF Get(amount) < 10000000 THEN "Small (<$10M)"
    ELSE IF Get(amount) < 100000000 THEN "Medium ($10M-$100M)"
    ELSE IF Get(amount) < 500000000 THEN "Large ($100M-$500M)"
    ELSE "Mega (>$500M)"

\* categorize_assets(amount), lines 103-115
categorize_assets(amount) ==
    IF IsNA(amount) \/ Get(amount) <= 0 THEN "Unknown"
    ELSE IF Get(amount) < 10000000 THEN "Small (<$10M)"
    ELSE IF Get(amount) < 100000000 THEN "Medium ($10M-$100M)"
    ELSE IF Get(amount) < 500000000 THEN "Large ($100M-$500M)"
    ELSE IF Get(amount) < 1000000000 THEN "Very Large ($500M-$1B)"
    ELSE "Mega (>$1B)"

\* df[col] >= bound of one cell: False for a missing value
AtLeast(v, bound) == NotNA(v) /\ Get(v) >= bound

\* PRT_READINESS_SCORE of a row, lines 121-147, in tenths of a point (the
\* score is rounded to one decimal; the percentages of the model are whole
\* numbers, so (pct / 100) * 30 is 3 tenths per point).  A missing mortality
\* code differs from 3.
ScoreTenths(r, columns) ==
    (IF "RETIREE_PCT" \in columns /\ NotNA(r.RETIREE_PCT)
        THEN 3 * Get(r.RETIREE_PCT) ELSE 0)
    + (IF "FUNDING_TARGET_PCT" \in columns /\ AtLeast(r.FUNDING_TARGET_PCT, 80)
        THEN 200 ELSE 0)
    + (IF "FUNDING_TARGET_PCT" \in columns /\ AtLeast(r.FUNDING_TARGET_PCT, 95)
        THEN 100 ELSE 0)
    + (IF AtLeast(r.SCH_H_TOTAL_ASSETS_EOY, 100000000) THEN 100 ELSE 0)
    + (IF AtLeast(r.SCH_H_TOTAL_ASSETS_EOY, 500000000) THEN 100 ELSE 0)
    + (IF AtLeast(r.SCH_H_TOTAL_ASSETS_EOY, 1000000000) THEN 100 ELSE 0)
    + (IF "MORTALITY_CODE" \in columns /\ r.MORTALITY_CODE # Val(3)
        THEN 200 ELSE 0)

PrtFields == {"PRT_CATEGORY", "ASSET_SIZE_CATEGORY", "PRT_READINESS_SCORE"}

\* add_prt_analysis_fields(df), lines 87-149: every assignment writes to df,
\* and df is what is returned.  Line 100 raises KeyError on a frame without
\* SCH_H_PRT_AMOUNT.  (No frame of the model has a column BUSINESS_CODE.)
add_prt_analysis_fields(df) ==
    LET Each(r) ==
            [c \in df.columns \cup PrtFields |->
                CASE c = "PRT_CATEGORY" -> Val(categorize_prt(r.SCH_H_PRT_AMOUNT))
                  [] c = "ASSET_SIZE_CATEGORY" ->
                        Val(categorize_assets(r.SCH_H_TOTAL_ASSETS_EOY))
                  [] c = "PRT_READINESS_SCORE" -> Val(ScoreTenths(r, df.columns))
                  [] OTHER -> r[c]]
    IN  IF "SCH_H_PRT_AMOUNT" \notin df.columns
        THEN Result(Raised("KeyError"), TRUE)
        ELSE Result([columns |-> df.columns \cup PrtFields,
                       rows |-> MapSeq(Each, df.rows)], FALSE)

\* on=["EIN", "PLAN_NUMBER", "YEAR"]
PlanYearKey == {"EIN", "PLAN_NUMBER", "YEAR"}
\* left_on=["ACK_ID", "YEAR"], right_on=["ACK_ID", "YEAR"]
AckYearKey == {"ACK_ID", "YEAR"}

SameOn(keys, l, r) == \A k \in keys : l[k] = r[k]

\* pd.merge(left, right, how="inner", on=keys, suffixes=("_SB", "_SR")): the
\* pairs of rows with equal keys, in the order of the left rows and, for one
\* left row, of the right rows
InnerMerge(left, right, keys) ==
    LET cols == keys
                  \cup {Suffixed(c, right.columns, keys, "_SB") : c \in left.columns \ keys}
                  \cup {Suffixed(c, left.columns, keys, "_SR") : c \in right.columns \ keys}
        FromLeft(c) == \E x \in left.columns \ keys :
                          Suffixed(x, right.columns, keys, "_SB") = c
        LeftCol(c) == CHOOSE x \in left.columns \ keys :
                          Suffixed(x, right.columns, keys, "_SB") = c
        RightCol(c) == CHOOSE x \in right.columns \ keys :
                          Suffixed(x, left.columns, keys, "_SR") = c
        OneLeft(l) ==
            LET Hit(r) == SameOn(keys, l, r)
                Pair(r) == [c \in cols |->
                               IF c \in keys THEN l[c]
                               ELSE IF FromLeft(c) THEN l[LeftCol(c)]
                               ELSE r[RightCol(c)]]
            IN  MapSeq(Pair, SelectSeq(right.rows, Hit))
    IN  [columns |-> cols, rows |-> FlatMap(OneLeft, left.rows)]

\* Lines 29-35: the primary merge
SbSrPrimary(sb_df, sr_df) == InnerMerge(sb_df, sr_df, PlanYearKey)

\* Lines 37-38: df.loc[~df.set_index(keys).index.isin(merged.set_index(keys)
\* .index)]: the rows whose plan-year is the plan-year of no merged row
UnmatchedRows(df, merged) ==
    LET Free(r) == \A i \in 1..Len(merged.rows) :
                       ~SameOn(PlanYearKey, r, merged.rows[i])
    IN  [columns |-> df.columns, rows |-> SelectSeq(df.rows, Free)]

\* sr_unmatched, line 38: the Schedule R rows the fallback merge is given
SrPool(sr_df, merged) == UnmatchedRows(sr_df, merged)

\* Lines 40-47: the fallback merge
SbSrFallback(sb_df, sr_df) ==
    LET merged == SbSrPrimary(sb_df, sr_df)
    IN  InnerMerge(UnmatchedRows(sb_df, merged), SrPool(sr_df, merged), AckYearKey)

\* pd.concat([a, b], ignore_index=True): the rows of a, then the rows of b,
\* over the columns of both; a column a row's frame lacks is missing
Concat(a, b) ==
    LET cols == a.columns \cup b.columns
        Wide(r) == [c \in cols |-> IF c \in DOMAIN r THEN r[c] ELSE NA]
    IN  [columns |-> cols, rows |-> MapSeq(Wide, a.rows \o b.rows)]

\* The values drop_duplicates compares: missing values are equal
PlanYearOf(r) == <<r.EIN, r.PLAN_NUMBER, r.YEAR>>

\* drop_duplicates(subset=["EIN", "PLAN_NUMBER", "YEAR"]), keep='first'
DropDuplicatePlans(rows) ==
    LET Kept(i) == \A j \in 1..(i - 1) : PlanYearOf(rows[j]) # PlanYearOf(rows[i])
        RECURSIVE From(_)
        From(i) ==
            IF i > Len(rows) THEN <<>>
            ELSE IF Kept(i) THEN <<rows[i]>> \o From(i + 1)
            ELSE From(i + 1)
    IN  From(1)

\* merge_sb_sr(sb_df, sr_df), lines 28-52.  The rows of the fallback merge
\* have EIN_SB, EIN_SR, PLAN_NUMBER_SB and PLAN_NUMBER_SR: in the
\* concatenation their EIN and PLAN_NUMBER are missing.
merge_sb_sr(sb_df, sr_df) ==
    LET all == Concat(SbSrPrimary(sb_df, sr_df), SbSrFallback(sb_df, sr_df))
    IN  [columns |-> all.columns, rows |-> DropDuplicatePlans(all.rows)]

\* ---- the tables of the calls

StageFrames(rows, n) ==
    {[columns |-> ColumnsOf(rows), rows |-> t] : t \in TablesOf(rows, n)}

\* Raw Schedule SB rows, with and without identifier columns
StageSbRows(hasIds) ==
    LET base == [SB_ACT_PARTCP_CNT : {Cell(<<"2">>), JunkCell},
                 SB_RTD_PARTCP_CNT : {Cell(<<"1">>)},
                 SB_TOT_FNDNG_TGT_AMT : {Cell(<<"7">>)}]
        ids == [SB_EIN : {Cell(<<" ", "9">>)},
                PLAN_NUMBER : {Cell(<<"1">>), NA},
                SB_PLAN_YR : {Cell(<<"2", "0", "1", "9">>)}]
        Row(b, d) ==
            [c \in DOMAIN b \cup (IF hasIds THEN DOMAIN d ELSE {}) |->
                IF c \in DOMAIN b THEN b[c] ELSE d[c]]
    IN  {Row(b, d) : b \in base, d \in ids}

\* Raw Schedule R rows: the plan number under one of two names or absent, the
\* year and the ACK_ID present or not
StageSrRows(planCol, hasYear, hasAck) ==
    LET all == [SCH_R_EIN : {Cell(<<" ", "9">>)},
                SCH_R_PN : {Cell(<<"1">>), NA},
                SCH_R_PLAN_NUM : {Cell(<<"1">>), NA},
                SCH_R_PLAN_YR : {Cell(<<"2", "0", "1", "9">>)},
                SCH_R_ACK_ID : {Cell(<<"A">>)},
                ASSET_FIXED_INCOME : {Val(20)}]
        cols == {"SCH_R_EIN", "ASSET_FIXED_INCOME"}
                  \cup (IF planCol = "" THEN {} ELSE {planCol})
                  \cup (IF hasYear THEN {"SCH_R_PLAN_YR"} ELSE {})
                  \cup (IF hasAck THEN {"SCH_R_ACK_ID"} ELSE {})
    IN  {[c \in cols |-> r[c]] : r \in all}

\* Plan rows with an ACK_ID that may carry blanks or be missing
DbPlanRows ==
    [ACK_ID : {Val(<<"A">>), Val(<<" ", "A">>), Val(<<"B">>), NA},
     TOTAL_LIABILITY : {Val(7)}]

\* Normalized Schedule H rows (normalize_sch_h_fields gives every frame the
\* columns ACK_ID, EIN, TOTAL_ASSETS_EOY and PRT_AMOUNT)
SchHRows ==
    {[ACK_ID |-> a, EIN |-> Val(<<"9">>), TOTAL_ASSETS_EOY |-> v[1],
      PRT_AMOUNT |-> v[2]] :
        a \in {Val(<<"A">>), Val(<<"A", " ">>), NA},
        v \in {<<Val(1), NA>>, <<Val(2), Val(5)>>}}

\* Merged plan rows: the Schedule H amounts, with or without the columns of
\* the percentages and the mortality code
PrtRows(hasMore) ==
    LET more == {[RETIREE_PCT |-> Val(50), FUNDING_TARGET_PCT |-> Val(95),
                  MORTALITY_CODE |-> Val(3)],
                 [RETIREE_PCT |-> NA, FUNDING_TARGET_PCT |-> Val(80),
                  MORTALITY_CODE |-> NA]}
        amounts == [SCH_H_PRT_AMOUNT : {NA, Val(0), Val(10000000)},
                    SCH_H_TOTAL_ASSETS_EOY : {NA, Val(1000000000)}]
        Row(a, m) ==
            [c \in DOMAIN a \cup (IF hasMore THEN DOMAIN m ELSE {}) |->
                IF c \in DOMAIN a THEN a[c] ELSE m[c]]
    IN  {Row(a, m) : a \in amounts, m \in more}

\* Normalized Schedule SB and Schedule R rows of one year
SbPlanRows ==
    [EIN : {Val(<<"9">>)}, PLAN_NUMBER : {Val(<<"0", "0", "1">>), Val(<<"0", "0", "2">>)},
     YEAR : {Val(2019)}, ACK_ID : {Val(<<"A">>), Val(<<"B">>)},
     TOTAL_LIABILITY : {Val(7)}]
SrPlanRows ==
    [EIN : {Val(<<"9">>)}, PLAN_NUMBER : {Val(<<"0", "0", "1">>), Val(<<"0", "0", "2">>)},
     YEAR : {Val(2019)}, ACK_ID : {Val(<<"A">>)},
     ASSET_FIXED_INCOME_PCT : {Val(20), Val(60)}]
        \cup [EIN : {Val(<<"9">>)}, PLAN_NUMBER : {Val(<<"0", "0", "2">>)},
              YEAR : {Val(2019)}, ACK_ID : {Val(<<"B">>)},
              ASSET_FIXED_INCOME_PCT : {Val(20)}]

\* build_sponsor_rollup, lines 61-63: the TRACKING_ID of a row
RollupTrackingId(r) ==
    TrackingId(Strip(AsStr(r.EIN)), Strip(AsStr(r.PLAN_NUMBER)))

\* The order of the groups of groupby(['TRACKING_ID', 'PLAN_YEAR'])
GroupBefore(a, b) == StrLess(a[1], b[1]) \/ (a[1] = b[1] /\ a[2] < b[2])

RECURSIVE SortGroups(_)
SortGroups(keys) ==
    IF keys = {} THEN <<>>
    ELSE LET first == CHOOSE k \in keys : \A o \in keys \ {k} : GroupBefore(k, o)
         IN  <<first>> \o SortGroups(keys \ {first})

\* unique_join, line 32: ",".join(sorted(set(...))) of the strings present
RECURSIVE JoinSorted(_)
JoinSorted(strs) ==
    IF strs = {} THEN <<>>
    ELSE LET first == CHOOSE x \in strs : \A o \in strs \ {x} : StrLess(x, o)
         IN  IF strs = {first} THEN first
             ELSE first \o <<",">> \o JoinSorted(strs \ {first})

\* Lines 59-87: sponsor_year, one row per (TRACKING_ID, PLAN_YEAR) with the
\* plan numbers joined and the counts and liabilities summed.  The frame has
\* no column EIN: EIN is neither a key of the groupby nor aggregated.
SponsorYear(master_table) ==
    LET rows == master_table.rows
        KeyOf(r) == <<RollupTrackingId(r), r.PLAN_YEAR>>
        keys == {KeyOf(rows[i]) : i \in 1..Len(rows)}
        Group(k) ==
            LET Mine(r) == KeyOf(r) = k
                group == SelectSeq(rows, Mine)
            IN  [TRACKING_ID |-> Val(k[1]), PLAN_YEAR |-> k[2],
                 PLAN_NUMBER |->
                     Val(JoinSorted({Strip(AsStr(group[i].PLAN_NUMBER)) :
                                        i \in 1..Len(group)})),
                 ACTIVE_COUNT |-> GroupSum(group, "ACTIVE_COUNT"),
                 TOTAL_LIABILITY |-> GroupSum(group, "TOTAL_LIABILITY")]
    IN  [columns |-> {"TRACKING_ID", "PLAN_YEAR", "PLAN_NUMBER", "ACTIVE_COUNT",
                      "TOTAL_LIABILITY"},
         rows |-> MapSeq(Group, SortGroups(keys))]

\* build_sponsor_rollup(master_df), lines 16-165.  The flags of lines 142-147
\* are computed on the groups of the frame of line 95, which has no column
\* asset_shift_fi_5yr (line 123 binds sponsor_year to a new frame), and line
\* 148 merges on 'EIN', a column neither frame has: the call raises KeyError
\* before anything is written (lines 155, 162) or returned.
build_sponsor_rollup(master_table) ==
    [sponsor_year |-> SponsorYear(master_table), out |-> Raised("KeyError")]

\* analyze_prt_history, line 44:
\* df['EIN'].astype(str) + '_' + df['PLAN_NUMBER'].astype(str)
PrtTrackingId(r) == AsStr(r.EIN) \o <<"_">> \o AsStr(r.PLAN_NUMBER)

\* The caller's frame after analyze_prt_history(df): line 44 assigns
\* TRACKING_ID in df
PrtCallerFrame(df) ==
    LET Each(r) ==
            [c \in df.columns \cup {"TRACKING_ID"} |->
                IF c = "TRACKING_ID" THEN Val(PrtTrackingId(r)) ELSE r[c]]
    IN  [columns |-> df.columns \cup {"TRACKING_ID"}, rows |-> MapSeq(Each, df.rows)]

\* sort_values('TOTAL_PRT', ascending=False): a row goes before the rows of a
\* smaller total
RECURSIVE SortByTotalPrt(_)
SortByTotalPrt(rows) ==
    IF rows = <<>> THEN <<>>
    ELSE LET Bigger(r) == r.TOTAL_PRT > Head(rows).TOTAL_PRT
             NotBigger(r) == ~Bigger(r)
             rest == SortByTotalPrt(Tail(rows))
         IN  SelectSeq(rest, Bigger) \o <<Head(rows)>> \o SelectSeq(rest, NotBigger)

\* analyze_prt_history(df), lines 44-89: the rows with a PRT amount above 0,
\* one row per TRACKING_ID with the amounts summed and counted
analyze_prt_history(df) ==
    LET marked == PrtCallerFrame(df).rows
        WithPrt(r) == NotNA(r.SCH_H_PRT_AMOUNT) /\ Get(r.SCH_H_PRT_AMOUNT) > 0
        prt_plans == SelectSeq(marked, WithPrt)
        ids == {<<Get(prt_plans[i].TRACKING_ID), 0>> : i \in 1..Len(prt_plans)}
        Group(k) ==
            LET Mine(r) == r.TRACKING_ID = Val(k[1])
                group == SelectSeq(prt_plans, Mine)
            IN  [TRACKING_ID |-> Val(k[1]),
                 TOTAL_PRT |-> Get(GroupSum(group, "SCH_H_PRT_AMOUNT")),
                 NUM_TRANSACTIONS |-> Len(group),
                 EIN |-> group[1].EIN, PLAN_NUMBER |-> group[1].PLAN_NUMBER]
    IN  [columns |-> {"TRACKING_ID", "TOTAL_PRT", "NUM_TRANSACTIONS", "EIN",
                      "PLAN_NUMBER"},
         rows |-> SortByTotalPrt(MapSeq(Group, SortGroups(ids)))]

\* Plan rows of the master table, each with the TRACKING_ID combine_years has
\* given it
MasterPlanRows ==
    {[EIN |-> Val(<<"9">>), PLAN_NUMBER |-> Val(pn), PLAN_YEAR |-> y,
      TRACKING_ID |-> Val(TrackingId(<<"9">>, pn)), ACTIVE_COUNT |-> a,
      TOTAL_LIABILITY |-> Val(7), SCH_H_PRT_AMOUNT |-> prt] :
        pn \in {<<"0", "0", "1">>, <<"0", "0", "2">>}, y \in {2019, 2020},
        a \in {Val(1), NA}, prt \in {Val(0), Val(5)}}

\* The calls: a stage and the tables it is given, of at most n rows
StageCalls(n) ==
    {[fn |-> "normalize_sb_fields", df |-> f] :
        f \in UNION {StageFrames(StageSbRows(ids), n) : ids \in BOOLEAN}}
    \cup {[fn |-> "normalize_sr_fields", df |-> f] :
        f \in UNION {StageFrames(StageSrRows(p, y, a), n) :
                        p \in {"SCH_R_PN", "SCH_R_PLAN_NUM", ""},
                        y \in BOOLEAN, a \in BOOLEAN}}
    \cup {[fn |-> "merge_schedule_h", db_plans |-> d, sch_h |-> h] :
        d \in StageFrames(DbPlanRows, n), h \in StageFrames(SchHRows, n)}
    \cup {[fn |-> "add_prt_analysis_fields", df |-> f] :
        f \in StageFrames(DbPlanRows, n)
                \cup UNION {StageFrames(PrtRows(m), n) : m \in BOOLEAN}}
    \cup {[fn |-> "merge_sb_sr", sb_df |-> s, sr_df |-> r] :
        s \in StageFrames(SbPlanRows, n), r \in StageFrames(SrPlanRows, n)}
    \cup {[fn |-> "build_sponsor_rollup", master_df |-> m] :
        m \in StageFrames(MasterPlanRows, n)}
    \cup {[fn |-> "analyze_prt_history", df |-> f] :
        f \in StageFrames(MasterPlanRows, n)}

InitStages ==
    /\ PipeIdle /\ IdentIdle /\ MergeIdle /\ RulesIdle /\ SlopeIdle
    /\ AgentIdle /\ IngestIdle /\ NormIdle /\ RatioIdle /\ RebuildIdle
    /\ stage_args \in StageCalls(MaxStageRows)
    /\ stage_ret = <<>>

\* The columns of the table normalize_sb_fields returns (the numeric ones)
SbOutColumns ==
    {"ACTIVE_COUNT", "RETIREE_COUNT", "SEPARATED_COUNT", "TOTAL_PARTICIPANTS",
     "TOTAL_LIABILITY"}

\* out = normalize_sb_fields(df): the result is the frame out of line 82
CallNormalizeSb ==
    /\ stage_args.fn = "normalize_sb_fields"
    /\ stage_ret = <<>>
    /\ stage_ret' =
          Val([args |-> [stage_args EXCEPT !.df = SbCallerFrame(@)],
               out |-> [columns |-> SbOutColumns,
                        rows |-> normalize_sb_fields(stage_args.df)],
               fresh |-> TRUE, locals |-> <<>>])
    /\ UNCHANGED stage_args
    /\ UNCHANGED notStageVars

\* out = normalize_sr_fields(df)
CallNormalizeSr ==
    /\ stage_args.fn = "normalize_sr_fields"
    /\ stage_ret = <<>>
    /\ stage_ret' =
          Val([args |-> stage_args, out |-> normalize_sr_fields(stage_args.df),
               fresh |-> TRUE, locals |-> <<>>])
    /\ UNCHANGED stage_args
    /\ UNCHANGED notStageVars

\* out = merge_schedule_h(db_plans, sch_h): both frames are copied before
\* they are written to (lines 37 and 40)
CallMergeScheduleH ==
    /\ stage_args.fn = "merge_schedule_h"
    /\ stage_ret = <<>>
    /\ LET ret == merge_schedule_h(stage_args.db_plans, stage_args.sch_h)
       IN  stage_ret' =
              Val([args |-> stage_args, out |-> ret.out, fresh |-> ret.fresh,
                   locals |-> <<>>])
    /\ UNCHANGED stage_args
    /\ UNCHANGED notStageVars

\* out = add_prt_analysis_fields(df): out is df
CallAddPrt ==
    /\ stage_args.fn = "add_prt_analysis_fields"
    /\ stage_ret = <<>>
    /\ LET ret == add_prt_analysis_fields(stage_args.df)
       IN  stage_ret' =
              Val([args |-> IF ret.fresh THEN stage_args
                            ELSE [stage_args EXCEPT !.df = ret.out],
                   out |-> ret.out, fresh |-> ret.fresh, locals |-> <<>>])
    /\ UNCHANGED stage_args
    /\ UNCHANGED notStageVars

\* out = merge_sb_sr(sb_df, sr_df); locals holds the two merges of the call
CallMergeSbSr ==
    /\ stage_args.fn = "merge_sb_sr"
    /\ stage_ret = <<>>
    /\ stage_ret' =
          Val([args |-> stage_args,
               out |-> merge_sb_sr(stage_args.sb_df, stage_args.sr_df),
               fresh |-> TRUE,
               locals |-> [merged |-> SbSrPrimary(stage_args.sb_df, stage_args.sr_df),
                           fallback |-> SbSrFallback(stage_args.sb_df,
                                                     stage_args.sr_df)]])
    /\ UNCHANGED stage_args
    /\ UNCHANGED notStageVars

\* build_sponsor_rollup(master_df): line 59 copies master_df; locals holds
\* sponsor_year as it is after line 87
CallBuildSponsorRollup ==
    /\ stage_args.fn = "build_sponsor_rollup"
    /\ stage_ret = <<>>
    /\ LET ret == build_sponsor_rollup(stage_args.master_df)
       IN  stage_ret' =
              Val([args |-> stage_args, out |-> ret.out, fresh |-> TRUE,
                   locals |-> [sponsor_year |-> ret.sponsor_year]])
    /\ UNCHANGED stage_args
    /\ UNCHANGED notStageVars

\* prt_history = analyze_prt_history(df)
CallAnalyzePrtHistory ==
    /\ stage_args.fn = "analyze_prt_history"
    /\ stage_ret = <<>>
    /\ stage_ret' =
          Val([args |-> [stage_args EXCEPT !.df = PrtCallerFrame(@)],
               out |-> analyze_prt_history(stage_args.df),
               fresh |-> TRUE, locals |-> <<>>])
    /\ UNCHANGED stage_args
    /\ UNCHANGED notStageVars

NextStages ==
    \/ CallNormalizeSb
    \/ CallNormalizeSr
    \/ CallMergeScheduleH
    \/ CallAddPrt
    \/ CallMergeSbSr
    \/ CallBuildSponsorRollup
    \/ CallAnalyzePrtHistory

SpecStages == InitStages /\ [][NextStages]_vars

StageCalled(fn) == stage_args.fn = fn /\ NotNA(stage_ret)

\* The stages that are said to leave their input alone
PureStages ==
    {"normalize_sb_fields", "normalize_sr_fields", "merge_schedule_h",
     "add_prt_analysis_fields"}

\* C22: after a call of normalize_sb_fields, normalize_sr_fields,
\* merge_schedule_h or add_prt_analysis_fields the caller's tables have the
\* columns and the values they had before the call, and the table returned is
\* a new table.
C22_StagesLeaveInputAlone ==
    \A fn \in PureStages :
        StageCalled(fn) =>
            /\ Get(stage_ret).args = stage_args
            /\ Get(stage_ret).fresh

\* The stages that copy before they write: normalize_sr_fields, and
\* merge_schedule_h given a Schedule H table with rows
CopyingStagesLeaveInputAlone ==
    (\/ StageCalled("normalize_sr_fields")
     \/ StageCalled("merge_schedule_h") /\ stage_args.sch_h.rows # <<>>)
        => /\ Get(stage_ret).args = stage_args
           /\ Get(stage_ret).fresh

\* The orders the rows of a table can be given in
Reorderings(rows) ==
    {[i \in 1..Len(rows) |-> rows[p[i]]] : p \in Permutations(1..Len(rows))}

RowSet(rows) == {rows[i] : i \in 1..Len(rows)}

\* merge_sb_sr keeps the same rows whatever the order of its two tables
SbSrSameForEveryOrder ==
    StageCalled("merge_sb_sr") =>
        \A s \in Reorderings(stage_args.sb_df.rows) :
            \A r \in Reorderings(stage_args.sr_df.rows) :
                RowSet(merge_sb_sr([stage_args.sb_df EXCEPT !.rows = s],
                                   [stage_args.sr_df EXCEPT !.rows = r]).rows)
                    = RowSet(Get(stage_ret).out.rows)

\* merge_schedule_h gives the same rows whatever the order of its two tables
ScheduleHSameForEveryOrder ==
    StageCalled("merge_schedule_h") =>
        \A d \in Reorderings(stage_args.db_plans.rows) :
            \A h \in Reorderings(stage_args.sch_h.rows) :
                RowSet(merge_schedule_h([stage_args.db_plans EXCEPT !.rows = d],
                                        [stage_args.sch_h EXCEPT !.rows = h]).out.rows)
                    = RowSet(Get(stage_ret).out.rows)

\* C26: the row that deduplication keeps, in merge_sb_sr and in
\* merge_schedule_h, is the same for every order of the input rows: the merged
\* table has the same rows, with the same values, whatever the order the rows
\* of the inputs are given in.
C26_RetainedRowSameForEveryOrder ==
    SbSrSameForEveryOrder /\ ScheduleHSameForEveryOrder

\* The plan-year of the Schedule SB row is the plan-year of no Schedule R row
PrimaryUnmatched(s) ==
    \A j \in 1..Len(stage_args.sr_df.rows) :
        ~SameOn(PlanYearKey, s, stage_args.sr_df.rows[j])

\* The row of the fallback merge that pairs Schedule SB row s with Schedule R
\* row r
FallbackPair(f, s, r) ==
    /\ f.ACK_ID = s.ACK_ID /\ f.YEAR = s.YEAR
    /\ f.EIN_SB = s.EIN /\ f.PLAN_NUMBER_SB = s.PLAN_NUMBER
    /\ f.TOTAL_LIABILITY = s.TOTAL_LIABILITY
    /\ f.EIN_SR = r.EIN /\ f.PLAN_NUMBER_SR = r.PLAN_NUMBER
    /\ f.ASSET_FIXED_INCOME_PCT = r.ASSET_FIXED_INCOME_PCT

\* The fallback merge of the call pairs only Schedule SB rows that the
\* primary merge has left unmatched
FallbackOnlyForUnmatched ==
    StageCalled("merge_sb_sr") =>
        LET fallback == Get(stage_ret).locals.fallback.rows
            sb == stage_args.sb_df.rows
        IN  \A k \in 1..Len(fallback) :
                \E i \in 1..Len(sb) :
                    /\ PrimaryUnmatched(sb[i])
                    /\ fallback[k].EIN_SB = sb[i].EIN
                    /\ fallback[k].PLAN_NUMBER_SB = sb[i].PLAN_NUMBER
                    /\ fallback[k].ACK_ID = sb[i].ACK_ID

\* C27: in merge_sb_sr the fallback merge pairs only the Schedule SB rows the
\* primary merge has left unmatched, and pairs each of them with every
\* Schedule R row of the whole Schedule R table that has its ACK_ID and year,
\* a row that the primary merge has matched included.
C27_FallbackAgainstCompletePool ==
    /\ FallbackOnlyForUnmatched
    /\ StageCalled("merge_sb_sr") =>
          LET fallback == Get(stage_ret).locals.fallback.rows
              sb == stage_args.sb_df.rows
              sr == stage_args.sr_df.rows
          IN  \A i \in 1..Len(sb) : \A j \in 1..Len(sr) :
                  (PrimaryUnmatched(sb[i]) /\ SameOn(AckYearKey, sb[i], sr[j]))
                      => \E k \in 1..Len(fallback) :
                            FallbackPair(fallback[k], sb[i], sr[j])

\* The Schedule H fields a plan row is to gain: those of the first Schedule H
\* row with its stripped ACK_ID (a missing ACK_ID is the text str gives it),
\* missing values when there is no such row
FirstScheduleH(l, sch_h) ==
    LET same == {j \in 1..Len(sch_h.rows) : AckKey(sch_h.rows[j]) = AckKey(l)}
        first == CHOOSE j \in same : \A k \in same : j <= k
    IN  [f \in sch_h_fields(sch_h) |->
            IF same = {} THEN NA ELSE sch_h.rows[first][f]]

\* The table returned has the rows of db_plans, in their order and with
\* their values, each with the Schedule H fields of FirstScheduleH
Enriched ==
    LET db == stage_args.db_plans
        h == stage_args.sch_h
        out == Get(stage_ret).out
    IN  /\ Len(out.rows) = Len(db.rows)
        /\ out.columns = db.columns \cup {HPrefixed(f) : f \in sch_h_fields(h)}
        /\ \A i \in 1..Len(db.rows) :
              /\ \A c \in db.columns : out.rows[i][c] = db.rows[i][c]
              /\ \A f \in sch_h_fields(h) :
                    out.rows[i][HPrefixed(f)] = FirstScheduleH(db.rows[i], h)[f]

IsTable(out) == "status" \notin DOMAIN out

\* The plans_in rows of one EIN and year
RowsOfEinYear(rows, ein, y) ==
    LET Mine(r) == r.EIN = ein /\ r.PLAN_YEAR = y
    IN  SelectSeq(rows, Mine)

EinYears(rows) == {<<rows[i].EIN, rows[i].PLAN_YEAR>> : i \in 1..Len(rows)}

\* The rows of the rollup table t that belong to an EIN and year: the rows of
\* the year whose TRACKING_ID is that of a plan of the EIN
RollupRowsOf(t, plans_in, ein, y) ==
    LET plans == RowsOfEinYear(plans_in, ein, y)
        Mine(r) == /\ r.PLAN_YEAR = y
                   /\ \E i \in 1..Len(plans) :
                         r.TRACKING_ID = Val(RollupTrackingId(plans[i]))
    IN  SelectSeq(t.rows, Mine)

\* The table t has exactly one row per (EIN, year) of the plan rows, with
\* the counts and the liabilities of all the plans of the EIN summed
OneRowPerEinYear(t, plans_in) ==
    \A k \in EinYears(plans_in) :
        LET mine == RollupRowsOf(t, plans_in, k[1], k[2])
            plans == RowsOfEinYear(plans_in, k[1], k[2])
        IN  /\ Len(mine) = 1
            /\ mine[1].ACTIVE_COUNT = GroupSum(plans, "ACTIVE_COUNT")
            /\ mine[1].TOTAL_LIABILITY = GroupSum(plans, "TOTAL_LIABILITY")

\* C24: build_sponsor_rollup returns a table with exactly one row per (EIN,
\* year), whose counts and liabilities are the sums over all the plans filed
\* under that EIN in that year.
C24_OneRowPerEinYear ==
    StageCalled("build_sponsor_rollup") =>
        /\ IsTable(Get(stage_ret).out)
        /\ OneRowPerEinYear(Get(stage_ret).out, stage_args.master_df.rows)

\* The same of the frame sponsor_year the call has built before it raises
SponsorYearOneRowPerEinYear ==
    StageCalled("build_sponsor_rollup") =>
        OneRowPerEinYear(Get(stage_ret).locals.sponsor_year,
                         stage_args.master_df.rows)

\* sponsor_year has one row per plan and year
SponsorYearOneRowPerPlanYear ==
    StageCalled("build_sponsor_rollup") =>
        LET t == Get(stage_ret).locals.sponsor_year.rows
            plans_in == stage_args.master_df.rows
        IN  /\ \A i, j \in 1..Len(t) :
                  (t[i].TRACKING_ID = t[j].TRACKING_ID
                     /\ t[i].PLAN_YEAR = t[j].PLAN_YEAR) => i = j
            /\ \A i \in 1..Len(plans_in) : \E j \in 1..Len(t) :
                  /\ t[j].TRACKING_ID = plans_in[i].TRACKING_ID
                  /\ t[j].PLAN_YEAR = plans_in[i].PLAN_YEAR

\* The tracking_id of a row: normalized EIN, "-", normalized plan number
StableId(r) == Val(TrackingId(NormEIN(AsStr(r.EIN)), NormPlanNumber(AsStr(r.PLAN_NUMBER))))

\* build_sponsor_rollup gives every plan the TRACKING_ID it has
RollupKeepsTrackingId ==
    StageCalled("build_sponsor_rollup") =>
        \A i \in 1..Len(stage_args.master_df.rows) :
            LET r == stage_args.master_df.rows[i]
            IN  /\ r.TRACKING_ID = StableId(r)
                /\ Val(RollupTrackingId(r)) = r.TRACKING_ID

\* C25: the tracking_id of a plan is normalized EIN, "-", normalized plan
\* number, and a component that assigns it again gives the value the row has:
\* after build_sponsor_rollup and after analyze_prt_history every row has the
\* TRACKING_ID it had before.
C25_TrackingIdNeverChanges ==
    /\ RollupKeepsTrackingId
    /\ StageCalled("analyze_prt_history") =>
          \A i \in 1..Len(stage_args.df.rows) :
              /\ stage_args.df.rows[i].TRACKING_ID = StableId(stage_args.df.rows[i])
              /\ Get(stage_ret).args.df.rows[i].TRACKING_ID
                    = stage_args.df.rows[i].TRACKING_ID

-----------------------------------------------------------------------------
(* The pipeline run twice on the same input files (SpecRebuild) *)

\* The runs loop over RebuildYears years from FirstYear on.
RebuildYears == 2

\* Input rows (the three files of every year together) of the input files.
MaxRebuildRows == 2

\* A year's Form 5500 or Schedule R file: absent, or rows of the first plan
\* (combine_years takes a file without rows as it takes an absent one)
SupplementalFiles(rows, n) ==
    {[exists |-> FALSE, rows |-> <<>>]}
        \cup {[exists |-> TRUE, rows |-> t] :
                 t \in {u \in TablesOf({r \in rows : r.PLAN_NUMBER = Str1}, n) :
                           u # <<>>}}

\* The files of one year, of at most n rows together
YearFilesUpTo(n) ==
    {[sb |-> a, f5500 |-> b, sr |-> c] :
        <<a, b, c>> \in
            {t \in Files(SBRows, n) \X SupplementalFiles(F5500Rows, n)
                      \X SupplementalFiles(SRRows, n) :
                Len(t[1].rows) + Len(t[2].rows) + Len(t[3].rows) <= n}}

\* The files of the years from the k-th on, of at most n rows together
RECURSIVE YearInputs(_, _)
YearInputs(k, n) ==
    IF k > RebuildYears THEN {<<>>}
    ELSE UNION {
           {<<f>> \o rest :
               rest \in YearInputs(k + 1, n - Len(f.sb.rows) - Len(f.f5500.rows)
                                            - Len(f.sr.rows))} :
           f \in YearFilesUpTo(n)}

\* A row an earlier run with other input files has left in the output
\* directory
StaleRow ==
    [EIN |-> <<"7">>, PLAN_NUMBER |-> <<"0", "0", "7">>, PLAN_YEAR |-> FirstYear,
     TRACKING_ID |-> <<"7", "-", "0", "0", "7">>]

\* The output directory before the first run: empty, or with the files of an
\* earlier run
EmptyDisk == [yearly |-> [k \in 1..RebuildYears |-> <<>>], master |-> <<>>]
StaleDisk ==
    [yearly |-> [k \in 1..RebuildYears |-> Val(<<StaleRow>>)],
     master |-> Val(<<StaleRow>>)]

\* A variant of StartResults: the list of the call before is appended to.
StartResultsKept(previous) == previous

\* results = []
StartResults(previous) == <<>>

\* combine_years: the loop over the years, appending to the list acc; a year
\* without Schedule SB rows is skipped
RECURSIVE CombineLoop(_, _, _)
CombineLoop(files, k, acc) ==
    IF k > Len(files) THEN acc
    ELSE LET f == files[k]
             y == FirstYear + k - 1
         IN  IF ~f.sb.exists \/ f.sb.rows = <<>>
             THEN CombineLoop(files, k + 1, acc)
             ELSE CombineLoop(files, k + 1,
                      Append(acc, [year |-> y,
                                   merged |-> MergeYear(f.sb.rows, f.f5500, f.sr, y)]))

\* combine_years(years, data_dir, output_dir, ...): the list returned
combine_years(files, previous) == CombineLoop(files, 1, StartResults(previous))

\* merged.to_parquet(out_path): the yearly files after combine_years has
\* returned res; the file of a year is overwritten by the year's last tuple
YearlyFiles(before, res) ==
    [k \in 1..RebuildYears |->
        LET OfYear(t) == t.year = FirstYear + k - 1
            mine == SelectSeq(res, OfYear)
        IN  IF mine = <<>> THEN before[k] ELSE Val(mine[Len(mine)].merged)]

\* The master table as the frame build_sponsor_rollup is given
MasterFrame(rows) ==
    LET Each(r) ==
            [EIN |-> Val(r.EIN), PLAN_NUMBER |-> Val(r.PLAN_NUMBER),
             PLAN_YEAR |-> r.PLAN_YEAR, TRACKING_ID |-> Val(r.TRACKING_ID),
             ACTIVE_COUNT |-> r.ACTIVE_COUNT, TOTAL_LIABILITY |-> NA]
    IN  [columns |-> {"EIN", "PLAN_NUMBER", "PLAN_YEAR", "TRACKING_ID",
                      "ACTIVE_COUNT", "TOTAL_LIABILITY"},
         rows |-> MapSeq(Each, rows)]

\* Nothing written or returned yet
NoOutput == [results |-> <<>>, master |-> <<>>, rollup |-> <<>>]

InitRebuild ==
    /\ PipeIdle /\ IdentIdle /\ MergeIdle /\ RulesIdle /\ SlopeIdle
    /\ AgentIdle /\ IngestIdle /\ NormIdle /\ RatioIdle /\ StageIdle
    /\ raw_files \in YearInputs(1, MaxRebuildRows)
    /\ disk \in {EmptyDisk, StaleDisk}
    /\ run_pc = "combine"
    /\ run_list = <<>>
    /\ run_out = NoOutput
    /\ runs = <<>>

\* yearly_merged_list = combine_years(...)
RunCombineYears ==
    /\ run_pc = "combine"
    /\ LET res == combine_years(raw_files, run_list)
       IN  /\ run_list' = res
           /\ run_out' = [NoOutput EXCEPT !.results = Val(res)]
           /\ disk' = [disk EXCEPT !.yearly = YearlyFiles(disk.yearly, res)]
    /\ run_pc' = "master"
    /\ UNCHANGED <<raw_files, runs>>
    /\ UNCHANGED notRebuildVars

\* master_df = build_master_dataset(yearly_merged_list): pd.concat of an
\* empty list raises ValueError, which ends the run
RunBuildMaster ==
    /\ run_pc = "master"
    /\ IF run_list = <<>>
       THEN /\ run_out' = [run_out EXCEPT !.master = Val("ValueError")]
            /\ run_pc' = "done"
            /\ disk' = disk
       ELSE /\ run_out' = [run_out EXCEPT !.master = Val(MasterOf(run_list))]
            /\ run_pc' = "rollup"
            /\ disk' = [disk EXCEPT !.master = Val(MasterOf(run_list))]
    /\ UNCHANGED <<raw_files, run_list, runs>>
    /\ UNCHANGED notRebuildVars

\* sponsor_rollup_df = build_sponsor_rollup(master_df)
RunBuildSponsorRollup ==
    /\ run_pc = "rollup"
    /\ run_out' = [run_out EXCEPT
                      !.rollup = Val(build_sponsor_rollup(
                                        MasterFrame(Get(run_out.master))).out)]
    /\ run_pc' = "done"
    /\ UNCHANGED <<raw_files, disk, run_list, runs>>
    /\ UNCHANGED notRebuildVars

\* The pipeline is started again on the same input files
RunAgain ==
    /\ run_pc = "done"
    /\ runs = <<>>
    /\ runs' = <<[out |-> run_out, disk |-> disk]>>
    /\ run_out' = NoOutput
    /\ run_pc' = "combine"
    /\ UNCHANGED <<raw_files, disk, run_list>>
    /\ UNCHANGED notRebuildVars

NextRebuild ==
    RunCombineYears \/ RunBuildMaster \/ RunBuildSponsorRollup \/ RunAgain

SpecRebuild == InitRebuild /\ [][NextRebuild]_vars

\* The second run is over
RanTwice == runs # <<>> /\ run_pc = "done"

OutputFromInputAlone ==
    run_pc = "done" =>
        /\ run_out.results = Val(CombineLoop(raw_files, 1, <<>>))
        /\ run_list # <<>> => run_out.master = Val(MasterOf(run_list))

=============================================================================
